---------------------------- MODULE Spec2Model ----------------------------
(***************************************************************************)
(* A model of the Metabase MCP server's core components and of the         *)
(* tool-call handler in front of them:                                     *)
(*                                                                         *)
(*   - DashboardUrlDecoder (src/src/shared/utils/urlDecoder.js): the       *)
(*     decoding of a shareable link into a card payload, modelled down to  *)
(*     the characters of the link (split, base64, UTF-8, JSON.parse);      *)
(*   - the request pipelines ApiClient.makeRequest                         *)
(*     (src/src/server/index.js) and MetabaseClient.makeRequest            *)
(*     (src/src/client/MetabaseClient.js): one state machine per           *)
(*     invocation, with its timer, its abort signal and its response;      *)
(*   - the CallTool handlers of the legacy server                          *)
(*     (src/src/server/index.js) and of the refactored server              *)
(*     (MetabaseMCPServer.executeTool): one tool call from its request to  *)
(*     its result, with the HTTP calls its handler makes.                  *)
(*                                                                         *)
(* A JavaScript string is a sequence of one-character strings.             *)
(***************************************************************************)
EXTENDS Integers, Sequences, FiniteSets, TLC

(***************************************************************************)
(* Characters.                                                             *)
(***************************************************************************)

\* The grave accent (code point 96), which a string literal cannot hold.
GRAVE == "<grave>"

\* The printable ASCII characters, code points 32..126 in order.
AsciiPrintable ==
  << " ", "!", "\"", "#", "$", "%", "&", "'", "(", ")", "*", "+", ",", "-", ".", "/",
     "0", "1", "2", "3", "4", "5", "6", "7", "8", "9", ":", ";", "<", "=", ">", "?",
     "@", "A", "B", "C", "D", "E", "F", "G", "H", "I", "J", "K", "L", "M", "N", "O",
     "P", "Q", "R", "S", "T", "U", "V", "W", "X", "Y", "Z", "[", "\\", "]", "^", "_",
     GRAVE, "a", "b", "c", "d", "e", "f", "g", "h", "i", "j", "k", "l", "m", "n", "o",
     "p", "q", "r", "s", "t", "u", "v", "w", "x", "y", "z", "{", "|", "}", "~" >>

\* Characters that are not printable ASCII: the three JSON white-space
\* controls, any other control character, and any character beyond ASCII
\* (a decoded multi-byte sequence or the replacement character U+FFFD).
TAB == "\t"
LF == "\n"
CR == "\r"
CTRL == "<ctrl>"
NONASCII == "<non-ascii>"

Digits == <<"0", "1", "2", "3", "4", "5", "6", "7", "8", "9">>

IsDigit(c) == \E i \in 1..10 : Digits[i] = c

DigitVal(c) == (CHOOSE i \in 1..10 : Digits[i] = c) - 1

\* The code point of a printable ASCII character.
CharCode(c) == (CHOOSE i \in 1..95 : AsciiPrintable[i] = c) + 31

\* The position of the first occurrence of character c in s at or after i,
\* Len(s) + 1 when there is none.
IndexOfChar(s, c, i) ==
  LET hits == {j \in i..Len(s) : s[j] = c}
  IN IF hits = {} THEN Len(s) + 1 ELSE CHOOSE j \in hits : \A k \in hits : j <= k

\* F(x), with x computed once: `LET v == x IN F(v)`, where x is computed
\* each time v is read.
With(x, F(_)) == CHOOSE y \in {F(v) : v \in {x}} : TRUE

\* The sequence with the elements f[1], ..., f[n], computed once.
Seq1(f) == <<>> \o f

\* String.prototype.includes: sub occurs in s as a contiguous substring.
Includes(s, sub) ==
  \E i \in 1..(Len(s) - Len(sub) + 1) : SubSeq(s, i, i + Len(sub) - 1) = sub

\* String.prototype.substring(0, n).
Substring0(s, n) == IF Len(s) <= n THEN s ELSE SubSeq(s, 1, n)

(***************************************************************************)
(* String.prototype.split('#'): the segments between the separators.       *)
(***************************************************************************)
RECURSIVE Split(_, _)
Split(s, sep) ==
  LET i == IndexOfChar(s, sep, 1)
  IN IF i > Len(s) THEN <<s>>
     ELSE <<SubSeq(s, 1, i - 1)>> \o Split(SubSeq(s, i + 1, Len(s)), sep)

(***************************************************************************)
(* Buffer.from(fragment, 'base64'): Node's decoder.  It never throws: a    *)
(* character outside the alphabet is skipped, the URL-safe '-' and '_'     *)
(* are read as '+' and '/', and '=' ends the decoding.  Every four         *)
(* sextets give three bytes; two or three left over give one or two.       *)
(***************************************************************************)
B64Alphabet ==
  << "A", "B", "C", "D", "E", "F", "G", "H", "I", "J", "K", "L", "M", "N", "O", "P",
     "Q", "R", "S", "T", "U", "V", "W", "X", "Y", "Z", "a", "b", "c", "d", "e", "f",
     "g", "h", "i", "j", "k", "l", "m", "n", "o", "p", "q", "r", "s", "t", "u", "v",
     "w", "x", "y", "z", "0", "1", "2", "3", "4", "5", "6", "7", "8", "9", "+", "/" >>

\* The sextet of a character, 64 for a character that has none.
unbase64(c) ==
  IF c = "-" THEN 62
  ELSE IF c = "_" THEN 63
  ELSE IF \E i \in 1..64 : B64Alphabet[i] = c
       THEN (CHOOSE i \in 1..64 : B64Alphabet[i] = c) - 1
       ELSE 64

HasSextet(c) == unbase64(c) < 64

\* The sextets read from src: those of its characters that have one, up to
\* the first '='.
Sextets(src) ==
  LET kept == SelectSeq(SubSeq(src, 1, IndexOfChar(src, "=", 1) - 1), HasSextet)
  IN Seq1([i \in 1..Len(kept) |-> unbase64(kept[i])])

\* The bytes of a run of sextets: byte k lies in group (k - 1) \div 3.
GroupBytes(q) ==
  LET n == Len(q)
      nbytes == (n \div 4) * 3 + (IF n % 4 = 3 THEN 2 ELSE IF n % 4 = 2 THEN 1 ELSE 0)
      byte(k) ==
        LET g == 4 * ((k - 1) \div 3)
            r == (k - 1) % 3
        IN IF r = 0 THEN q[g + 1] * 4 + (q[g + 2] \div 16)
           ELSE IF r = 1 THEN (q[g + 2] % 16) * 16 + (q[g + 3] \div 4)
           ELSE (q[g + 3] % 4) * 64 + q[g + 4]
  IN Seq1([k \in 1..nbytes |-> byte(k)])

Base64Decode(src) == GroupBytes(Sextets(src))

(***************************************************************************)
(* Buffer.prototype.toString('utf-8').  It never throws: an ASCII byte is  *)
(* its character, a byte of 128 or more belongs to a multi-byte sequence   *)
(* or is replaced by U+FFFD, either way a character beyond ASCII (the      *)
(* model keeps one character per such byte).                               *)
(***************************************************************************)
ByteChar(b) ==
  IF b >= 128 THEN NONASCII
  ELSE IF b = 9 THEN TAB
  ELSE IF b = 10 THEN LF
  ELSE IF b = 13 THEN CR
  ELSE IF b < 32 \/ b = 127 THEN CTRL
  ELSE AsciiPrintable[b - 31]

Utf8ToString(bytes) == Seq1([i \in 1..Len(bytes) |-> ByteChar(bytes[i])])

(***************************************************************************)
(* JavaScript values.  A value is a record tagged with its type:           *)
(* undefined, null, a boolean, an integer number, a number written with a  *)
(* fraction or an exponent (kept as its literal), a string, an array, an   *)
(* object (a function from its own property names to their values), or a  *)
(* built-in function.                                                      *)
(***************************************************************************)
Undefined == [t |-> "undefined"]
JNull == [t |-> "null"]
JBool(b) == [t |-> "bool", v |-> b]
JNum(n) == [t |-> "num", v |-> n]
JFloat(lit) == [t |-> "float", v |-> lit]
JStr(s) == [t |-> "str", v |-> s]
JArr(a) == [t |-> "arr", v |-> a]
JObj(f) == [t |-> "obj", v |-> f]
JFunction(name) == [t |-> "function", v |-> name]

\* An object with one more own property; a repeated name keeps the last value.
SetProp(f, k, val) == [x \in (DOMAIN f) \cup {k} |-> IF x = k THEN val ELSE f[x]]

\* ToBoolean: what `if (x)` and `!x` test.
Truthy(x) ==
  CASE x.t = "undefined" -> FALSE
    [] x.t = "null" -> FALSE
    [] x.t = "bool" -> x.v
    [] x.t = "num" -> x.v # 0
    [] x.t = "float" ->
         LET e == IF IndexOfChar(x.v, "e", 1) < IndexOfChar(x.v, "E", 1)
                  THEN IndexOfChar(x.v, "e", 1) ELSE IndexOfChar(x.v, "E", 1)
         IN \E i \in 1..(e - 1) : IsDigit(x.v[i]) /\ x.v[i] # "0"
    [] x.t = "str" -> Len(x.v) > 0
    [] OTHER -> TRUE

(***************************************************************************)
(* JSON.parse.  Each parsing operator takes the text and a position and    *)
(* returns [ok, v, pos]: whether a value was read, the value, and the      *)
(* position after it.                                                      *)
(***************************************************************************)
ParseFail == [ok |-> FALSE, v |-> JNull, pos |-> 0]

ParseOk(val, p) == [ok |-> TRUE, v |-> val, pos |-> p]

IsWs(c) == c \in {" ", TAB, LF, CR}

RECURSIVE SkipWs(_, _)
SkipWs(t, i) == IF i <= Len(t) /\ IsWs(t[i]) THEN SkipWs(t, i + 1) ELSE i

\* The position after the run of digits that starts at i.
RECURSIVE DigitsEnd(_, _)
DigitsEnd(t, i) == IF i <= Len(t) /\ IsDigit(t[i]) THEN DigitsEnd(t, i + 1) ELSE i

\* The number written by the digits t[i..j-1].
RECURSIVE DigitsVal(_, _, _)
DigitsVal(t, i, j) == IF j <= i THEN 0 ELSE DigitsVal(t, i, j - 1) * 10 + DigitVal(t[j - 1])

At(t, i) == IF i >= 1 /\ i <= Len(t) THEN t[i] ELSE "<eof>"

HexDigits == <<"0", "1", "2", "3", "4", "5", "6", "7", "8", "9", "a", "b", "c", "d", "e", "f">>
HexUpper == <<"0", "1", "2", "3", "4", "5", "6", "7", "8", "9", "A", "B", "C", "D", "E", "F">>

IsHex(c) == \E i \in 1..16 : HexDigits[i] = c \/ HexUpper[i] = c

HexVal(c) == (CHOOSE i \in 1..16 : HexDigits[i] = c \/ HexUpper[i] = c) - 1

\* number: -? (0 | [1-9][0-9]*) (. [0-9]+)? ([eE] [+-]? [0-9]+)?
ParseNumber(t, i) ==
  LET s == IF At(t, i) = "-" THEN i + 1 ELSE i
      intEnd == IF At(t, s) = "0" THEN s + 1 ELSE DigitsEnd(t, s)
      hasFrac == At(t, intEnd) = "."
      fracEnd == IF hasFrac THEN DigitsEnd(t, intEnd + 1) ELSE intEnd
      hasExp == At(t, fracEnd) \in {"e", "E"}
      expStart == IF At(t, fracEnd + 1) \in {"+", "-"} THEN fracEnd + 2 ELSE fracEnd + 1
      expEnd == IF hasExp THEN DigitsEnd(t, expStart) ELSE fracEnd
  IN IF intEnd = s THEN ParseFail
     ELSE IF hasFrac /\ fracEnd = intEnd + 1 THEN ParseFail
     ELSE IF hasExp /\ expEnd = expStart THEN ParseFail
     ELSE IF hasFrac \/ hasExp THEN ParseOk(JFloat(SubSeq(t, i, expEnd - 1)), expEnd)
     ELSE ParseOk(JNum((IF s > i THEN -1 ELSE 1) * DigitsVal(t, s, intEnd)), intEnd)

\* The characters of a string literal that has escapes, from i on, acc
\* holding those already read.
RECURSIVE ParseEscaped(_, _, _)
ParseEscaped(t, i, acc) ==
  LET c == At(t, i)
      e == At(t, i + 1)
      code == HexVal(At(t, i + 2)) * 4096 + HexVal(At(t, i + 3)) * 256
              + HexVal(At(t, i + 4)) * 16 + HexVal(At(t, i + 5))
      more(n, ch) == With(Append(acc, ch), LAMBDA a : ParseEscaped(t, i + n, a))
  IN IF i > Len(t) THEN ParseFail
     ELSE IF c = "\"" THEN ParseOk(acc, i + 1)
     ELSE IF c \in {TAB, LF, CR, CTRL} THEN ParseFail
     ELSE IF c # "\\" THEN more(1, c)
     ELSE IF e \in {"\"", "\\", "/"} THEN more(2, e)
     ELSE IF e = "t" THEN more(2, TAB)
     ELSE IF e = "n" THEN more(2, LF)
     ELSE IF e = "r" THEN more(2, CR)
     ELSE IF e \in {"b", "f"} THEN more(2, CTRL)
     ELSE IF e = "u" /\ \A k \in 2..5 : IsHex(At(t, i + k))
          THEN more(6, ByteChar(IF code > 128 THEN 128 ELSE code))
     ELSE ParseFail

\* The characters of a string literal whose opening quote is before i: up
\* to the next quote when no backslash comes before it.
ParseString(t, i) ==
  LET close == IndexOfChar(t, "\"", i)
      body == SubSeq(t, i, close - 1)
  IN IF close > Len(t) THEN ParseFail
     ELSE IF \E k \in i..(close - 1) : t[k] = "\\" THEN ParseEscaped(t, i, <<>>)
     ELSE IF \E k \in i..(close - 1) : t[k] \in {TAB, LF, CR, CTRL} THEN ParseFail
     ELSE ParseOk(body, close + 1)

Literal(t, i, word, val) ==
  IF i + Len(word) - 1 <= Len(t) /\ SubSeq(t, i, i + Len(word) - 1) = word
  THEN ParseOk(val, i + Len(word))
  ELSE ParseFail

RECURSIVE ParseValue(_, _)
RECURSIVE ParseElements(_, _, _)
RECURSIVE ParseMembers(_, _, _)

\* The value that starts at i (white space already skipped).
ParseValue(t, i) ==
  LET c == At(t, i)
      j == SkipWs(t, i + 1)
  IN IF c = "{" THEN
       IF At(t, j) = "}" THEN ParseOk(JObj(<<>>), j + 1) ELSE ParseMembers(t, j, <<>>)
     ELSE IF c = "[" THEN
       IF At(t, j) = "]" THEN ParseOk(JArr(<<>>), j + 1) ELSE ParseElements(t, j, <<>>)
     ELSE IF c = "\"" THEN
       With(ParseString(t, i + 1), LAMBDA str :
         IF str.ok THEN ParseOk(JStr(str.v), str.pos) ELSE ParseFail)
     ELSE IF c = "-" \/ IsDigit(c) THEN ParseNumber(t, i)
     ELSE IF c = "t" THEN Literal(t, i, <<"t", "r", "u", "e">>, JBool(TRUE))
     ELSE IF c = "f" THEN Literal(t, i, <<"f", "a", "l", "s", "e">>, JBool(FALSE))
     ELSE IF c = "n" THEN Literal(t, i, <<"n", "u", "l", "l">>, JNull)
     ELSE ParseFail

\* After the elements acc of an array, at j: a comma and more, or the end.
ElementsAfter(t, acc, j) ==
  IF At(t, j) = "," THEN ParseElements(t, SkipWs(t, j + 1), acc)
  ELSE IF At(t, j) = "]" THEN ParseOk(JArr(acc), j + 1)
  ELSE ParseFail

\* The elements of an array from i on, acc holding those already read.
ParseElements(t, i, acc) ==
  With(ParseValue(t, i), LAMBDA r :
    IF ~r.ok THEN ParseFail
    ELSE With(Append(acc, r.v), LAMBDA a : ElementsAfter(t, a, SkipWs(t, r.pos))))

\* After the members acc of an object, at j: a comma and more, or the end.
MembersAfter(t, acc, j) ==
  IF At(t, j) = "," THEN ParseMembers(t, SkipWs(t, j + 1), acc)
  ELSE IF At(t, j) = "}" THEN ParseOk(JObj(acc), j + 1)
  ELSE ParseFail

\* The value of the member named key, whose colon is expected at colon.
MemberValue(t, acc, key, colon) ==
  IF At(t, colon) # ":" THEN ParseFail
  ELSE With(ParseValue(t, SkipWs(t, colon + 1)), LAMBDA r :
         IF ~r.ok THEN ParseFail
         ELSE With(SetProp(acc, key, r.v), LAMBDA a : MembersAfter(t, a, SkipWs(t, r.pos))))

\* The members of an object from i on, acc holding those already read.
ParseMembers(t, i, acc) ==
  IF At(t, i) # "\"" THEN ParseFail
  ELSE With(ParseString(t, i + 1), LAMBDA key :
         IF ~key.ok THEN ParseFail
         ELSE MemberValue(t, acc, key.v, SkipWs(t, key.pos)))

\* JSON.parse(text): the value, or a SyntaxError.
JSONParse(text) ==
  With(ParseValue(text, SkipWs(text, 1)), LAMBDA r :
    IF r.ok /\ SkipWs(text, r.pos) > Len(text)
    THEN [ok |-> TRUE, v |-> r.v]
    ELSE [ok |-> FALSE, v |-> Undefined])

(***************************************************************************)
(* Property names and string constants of the decoder.                     *)
(***************************************************************************)
Key_original_card_id ==
  <<"o", "r", "i", "g", "i", "n", "a", "l", "_", "c", "a", "r", "d", "_", "i", "d">>
Key_dataset_query == <<"d", "a", "t", "a", "s", "e", "t", "_", "q", "u", "e", "r", "y">>
Key_display == <<"d", "i", "s", "p", "l", "a", "y">>
Key_visualization_settings ==
  <<"v", "i", "s", "u", "a", "l", "i", "z", "a", "t", "i", "o", "n", "_",
    "s", "e", "t", "t", "i", "n", "g", "s">>
Key_name == <<"n", "a", "m", "e">>
Key_description == <<"d", "e", "s", "c", "r", "i", "p", "t", "i", "o", "n">>
Key_type == <<"t", "y", "p", "e">>
Key_query == <<"q", "u", "e", "r", "y">>
Key_filter == <<"f", "i", "l", "t", "e", "r">>
Key_aggregation == <<"a", "g", "g", "r", "e", "g", "a", "t", "i", "o", "n">>
Key_breakout == <<"b", "r", "e", "a", "k", "o", "u", "t">>
Key_source_table == <<"s", "o", "u", "r", "c", "e", "-", "t", "a", "b", "l", "e">>
Key_order_by == <<"o", "r", "d", "e", "r", "-", "b", "y">>
Key_limit == <<"l", "i", "m", "i", "t">>
Key_filters == <<"f", "i", "l", "t", "e", "r", "s">>
Key_aggregations == <<"a", "g", "g", "r", "e", "g", "a", "t", "i", "o", "n", "s">>
Key_breakouts == <<"b", "r", "e", "a", "k", "o", "u", "t", "s">>
Key_sourceTable == <<"s", "o", "u", "r", "c", "e", "T", "a", "b", "l", "e">>
Key_orderBy == <<"o", "r", "d", "e", "r", "B", "y">>
Str_url == <<"u", "r", "l">>

(***************************************************************************)
(* Completion of a call: it returns a value or throws an error.            *)
(***************************************************************************)
Return(x) == [kind |-> "return", value |-> x]

Throw(e) == [kind |-> "throw", error |-> e]

\* An error of the JavaScript runtime (SyntaxError, TypeError).
JsError(name) == [name |-> name]

\* new ValidationError(message, field, value)
ValidationError(message, field, value) ==
  [name |-> "ValidationError", code |-> "VALIDATION_ERROR", message |-> message,
   field |-> field, value |-> value]

(***************************************************************************)
(* Property reads.  `x.k` throws a TypeError when x is undefined or null;  *)
(* otherwise it is the own property, a property inherited from the         *)
(* prototype (of the names the decoder reads only Array.prototype.filter   *)
(* exists), or undefined.                                                  *)
(***************************************************************************)
CanRead(x) == x.t \notin {"undefined", "null"}

Get(x, k) ==
  IF x.t = "obj" /\ k \in DOMAIN x.v THEN x.v[k]
  ELSE IF x.t = "arr" /\ k = Key_filter THEN JFunction("Array.prototype.filter")
  ELSE Undefined

(***************************************************************************)
(* DashboardUrlDecoder.extractParametersFromQuery(datasetQuery).           *)
(***************************************************************************)
\* The six reads of the query body, in the order of the code: the property
\* read and the property of `parameters` it is assigned to.
ParamRules ==
  << [src |-> Key_filter, out |-> Key_filters],
     [src |-> Key_aggregation, out |-> Key_aggregations],
     [src |-> Key_breakout, out |-> Key_breakouts],
     [src |-> Key_source_table, out |-> Key_sourceTable],
     [src |-> Key_order_by, out |-> Key_orderBy],
     [src |-> Key_limit, out |-> Key_limit] >>

\* `if (query[src])`: the test that guards each assignment.
ParamTest(x) == Truthy(x)

\* A guard that singles out the native kind instead of the builder kind.
NotQueryBuilder_nativeOnly(datasetQuery) ==
  ~Truthy(datasetQuery) \/ Get(datasetQuery, Key_type) = JStr(<<"n", "a", "t", "i", "v", "e">>)

\* `!datasetQuery || datasetQuery.type !== 'query'`
NotQueryBuilder(datasetQuery) ==
  ~Truthy(datasetQuery) \/ Get(datasetQuery, Key_type) # JStr(Key_query)

extractParametersFromQuery(datasetQuery) ==
  IF NotQueryBuilder(datasetQuery) THEN Return(JObj(<<>>))
  ELSE LET query == Get(datasetQuery, Key_query)
           taken == {i \in 1..Len(ParamRules) : ParamTest(Get(query, ParamRules[i].src))}
       IN IF ~CanRead(query) THEN Throw(JsError("TypeError"))
          ELSE Return(JObj([k \in {ParamRules[i].out : i \in taken} |->
                 Get(query, ParamRules[CHOOSE i \in taken : ParamRules[i].out = k].src)]))

(***************************************************************************)
(* DashboardUrlDecoder.decode(url).                                        *)
(***************************************************************************)
\* `url.split('#')[1]`: the second segment, undefined when there is none.
FragmentOf(url) ==
  LET segs == Split(url, "#")
  IN IF Len(segs) >= 2 THEN JStr(segs[2]) ELSE Undefined

\* The same error with the field and the value in each other's place.
NoFragmentError_swapped(url) ==
  ValidationError(<<"No fragment found in URL">>, JStr(url), JStr(Str_url))

\* The error thrown when the fragment is missing or empty.
NoFragmentError(url) ==
  ValidationError(<<"No fragment found in URL">>, JStr(Str_url), JStr(url))

\* `Buffer.from(fragment, 'base64').toString('utf-8')`
DecodedText(fragment) == Utf8ToString(Base64Decode(fragment))

\* `JSON.parse(decoded)` of a fragment that passed the check.
ParsedData(fragment) == JSONParse(DecodedText(fragment.v))

\* The object literal returned by decode: seven reads of `data`.
Payload(data, parameters) ==
  [originalCardId |-> Get(data, Key_original_card_id),
   datasetQuery |-> Get(data, Key_dataset_query),
   parameters |-> parameters,
   display |-> Get(data, Key_display),
   visualizationSettings |-> Get(data, Key_visualization_settings),
   name |-> Get(data, Key_name),
   description |-> Get(data, Key_description)]

\* The body of the try block: what it returns or throws.
decodeTry(url) ==
  LET fragment == FragmentOf(url)
      parsed == ParsedData(fragment)
      data == parsed.v
      extracted == extractParametersFromQuery(Get(data, Key_dataset_query))
  IN IF ~Truthy(fragment) THEN Throw(NoFragmentError(url))
     ELSE IF ~parsed.ok THEN Throw(JsError("SyntaxError"))
     ELSE IF ~CanRead(data) THEN Throw(JsError("TypeError"))
     ELSE IF extracted.kind = "throw" THEN extracted
     ELSE Return(Payload(data, extracted.value))

\* A catch block that rethrows whatever it caught.
decodeCatch_rethrow(error, url) == error

\* The catch block: a ValidationError is rethrown, anything else is wrapped
\* (the message of the new error ends with the message of the one caught).
decodeCatch(error, url) ==
  IF error.name = "ValidationError" THEN error
  ELSE ValidationError(<<"Failed to decode dashboard URL: ", error.name>>,
                       JStr(Str_url), JStr(url))

decode(url) ==
  With(decodeTry(url),
       LAMBDA r : IF r.kind = "throw" THEN Throw(decodeCatch(r.error, url)) ELSE r)

(***************************************************************************)
(* The links given to decode.  Three families:                             *)
(*   - every string of at most MaxRawLen characters over RawAlphabet,      *)
(*     which holds '#', the padding '=', a character outside the base64    *)
(*     alphabet and the characters of "e30=", the encoding of "{}";        *)
(*   - for every document of Documents, the link that the platform's web   *)
(*     client makes of it: a prefix, '#', the padded standard base64 of    *)
(*     the document's JSON text;                                           *)
(*   - such links damaged: padding removed, URL-safe alphabet, a line      *)
(*     break or a '#' inside the fragment.                                 *)
(***************************************************************************)
MaxRawLen == 5

RawAlphabet == {"#", "=", "!", "e", "3", "0"}

RawLinks == UNION {[1..n -> RawAlphabet] : n \in 0..MaxRawLen}

\* Standard base64 with padding, as `btoa` writes it.
Base64Encode(bytes) ==
  LET n == Len(bytes)
      b(j) == IF j <= n THEN bytes[j] ELSE 0
      char(k) ==
        LET g == 3 * ((k - 1) \div 4)
            r == (k - 1) % 4
        IN IF r = 0 THEN B64Alphabet[(b(g + 1) \div 4) + 1]
           ELSE IF r = 1 THEN B64Alphabet[(b(g + 1) % 4) * 16 + (b(g + 2) \div 16) + 1]
           ELSE IF r = 2 THEN
             IF g + 2 > n THEN "=" ELSE B64Alphabet[(b(g + 2) % 16) * 4 + (b(g + 3) \div 64) + 1]
           ELSE IF g + 3 > n THEN "=" ELSE B64Alphabet[(b(g + 3) % 64) + 1]
  IN Seq1([k \in 1..(((n + 2) \div 3) * 4) |-> char(k)])

TextBytes(text) == Seq1([i \in 1..Len(text) |-> CharCode(text[i])])

LinkPrefix == <<"h", "/", "q">>

LinkOf(text) == LinkPrefix \o <<"#">> \o Base64Encode(TextBytes(text))

\* JSON text: a quoted name, a member, an object of members.
Quote(str) == <<"\"">> \o str \o <<"\"">>

Member(k, vtext) == Quote(k) \o <<":">> \o vtext

RECURSIVE JoinMembers(_)
JoinMembers(ms) ==
  IF Len(ms) = 0 THEN <<>>
  ELSE IF Len(ms) = 1 THEN ms[1]
  ELSE ms[1] \o <<",">> \o JoinMembers(Tail(ms))

ObjectText(ms) == <<"{">> \o JoinMembers(ms) \o <<"}">>

\* Values a query-body key may hold: four falsy ones, four truthy ones.
T_zero == <<"0">>
T_empty == <<"\"", "\"">>
T_false == <<"f", "a", "l", "s", "e">>
T_null == <<"n", "u", "l", "l">>
T_ten == <<"1", "0">>
T_list == <<"[", "1", "]">>
T_x == <<"\"", "x", "\"">>
T_obj == <<"{", "}">>

ValueTexts == {T_zero, T_empty, T_false, T_null, T_ten, T_list, T_x, T_obj}

Key_joins == <<"j", "o", "i", "n", "s">>

SourceKeys == <<Key_filter, Key_aggregation, Key_breakout, Key_source_table,
                Key_order_by, Key_limit, Key_joins>>

\* Query bodies with one key: every key with every value.
OneKeyBodies ==
  {ObjectText(<<Member(SourceKeys[i], v)>>) : i \in 1..Len(SourceKeys), v \in ValueTexts}

\* Query bodies in which each key is absent, holds [1] or holds 0.
ChoiceText(c) == IF c = "truthy" THEN T_list ELSE T_zero

RECURSIVE ChosenMembers(_, _)
ChosenMembers(choice, i) ==
  IF i > Len(SourceKeys) THEN <<>>
  ELSE IF choice[i] = "absent" THEN ChosenMembers(choice, i + 1)
  ELSE <<Member(SourceKeys[i], ChoiceText(choice[i]))>> \o ChosenMembers(choice, i + 1)

ManyKeyBodies ==
  {ObjectText(ChosenMembers(choice, 1)) :
     choice \in [1..Len(SourceKeys) -> {"absent", "truthy", "falsy"}]}

\* Query bodies that are no object.
OddBodies == {T_null, T_zero, T_ten, T_x, <<"[", "]">>, T_list, T_false}

Key_native == <<"n", "a", "t", "i", "v", "e">>

TypeMember(kind) == Member(Key_type, Quote(kind))

\* dataset_query values of the structured-builder kind.
QueryKindTexts ==
  {ObjectText(<<TypeMember(Key_query), Member(Key_query, b)>>) :
     b \in OneKeyBodies \cup ManyKeyBodies \cup OddBodies}
  \cup {ObjectText(<<TypeMember(Key_query)>>)}

\* dataset_query values of another kind: native SQL (with and without the
\* keys of a query body), another spelling of the type, no type, no object.
OtherKindTexts ==
  {ObjectText(<<TypeMember(Key_native), Member(Key_native, T_obj)>>),
   ObjectText(<<TypeMember(Key_native), Member(Key_query, ObjectText(<<Member(Key_limit, T_ten)>>))>>),
   ObjectText(<<TypeMember(<<"Q", "u", "e", "r", "y">>),
                Member(Key_query, ObjectText(<<Member(Key_limit, T_ten)>>))>>),
   ObjectText(<<Member(Key_type, T_null), Member(Key_query, T_null)>>),
   ObjectText(<<Member(Key_query, ObjectText(<<Member(Key_filter, T_list)>>))>>),
   T_obj, T_null, T_zero, T_empty, T_false, T_ten, T_x, T_list, <<"t", "r", "u", "e">>}

CardMember == Member(Key_original_card_id, <<"4", "2">>)

DisplayMember == Member(Key_display, Quote(<<"t", "a", "b", "l", "e">>))

\* The documents: objects with and without dataset_query, and JSON texts
\* that are no object.
Documents ==
  {ObjectText(<<CardMember, Member(Key_dataset_query, q), DisplayMember>>) :
     q \in QueryKindTexts \cup OtherKindTexts}
  \cup {ObjectText(<<CardMember, DisplayMember>>), T_obj, T_null, T_ten, T_x, T_list,
        ObjectText(<<Member(Key_name, Quote(<<"?", "?", ">", ">", "~">>))>>)}

DocumentLinks == {LinkOf(d) : d \in Documents}

\* Damage done to the fragment of a link.
RECURSIVE StripPadding(_)
StripPadding(f) ==
  IF Len(f) > 0 /\ f[Len(f)] = "=" THEN StripPadding(SubSeq(f, 1, Len(f) - 1)) ELSE f

UrlSafe(f) ==
  Seq1([i \in 1..Len(f) |-> IF f[i] = "+" THEN "-" ELSE IF f[i] = "/" THEN "_" ELSE f[i]])

InsertAt(f, i, c) == SubSeq(f, 1, i) \o <<c>> \o SubSeq(f, i + 1, Len(f))

Damages(f) ==
  {StripPadding(f), UrlSafe(f), UrlSafe(StripPadding(f)), InsertAt(f, 4, LF),
   InsertAt(f, 3, "!"), InsertAt(f, 3, "#"), InsertAt(f, 4, "#"), f \o <<"#", "x">>,
   InsertAt(f, Len(f) \div 2, " "), InsertAt(f, 2, "=")}

DamagedDocuments ==
  {T_obj, T_null, T_x,
   ObjectText(<<CardMember, DisplayMember>>),
   ObjectText(<<Member(Key_name, Quote(<<"?", "?", ">", ">", "~">>))>>),
   ObjectText(<<CardMember,
                Member(Key_dataset_query,
                       ObjectText(<<TypeMember(Key_query),
                                    Member(Key_query, ObjectText(<<Member(Key_limit, T_ten)>>))>>))>>)}

DamagedLinks ==
  {LinkPrefix \o <<"#">> \o f :
     f \in UNION {Damages(Base64Encode(TextBytes(d))) : d \in DamagedDocuments}}

Links == RawLinks \cup DocumentLinks \cup DamagedLinks

(***************************************************************************)
(* State of the decoder: the argument of the call, whether the call has    *)
(* completed, and what the call computed on its way: the fragment it took, *)
(* the document it parsed, the completion of extractParametersFromQuery    *)
(* and its own completion.                                                 *)
(***************************************************************************)
VARIABLES url, dpc, fragment, data, extracted, result

decoderVars == <<url, dpc, fragment, data, extracted, result>>

\* The variables of the request pipeline, described with its actions.
VARIABLES client, calls, sent

pipelineVars == <<client, calls, sent>>

\* The tool-call handler of a server: which server it is, the tool calls it
\* has answered, and the tool call it is serving.
VARIABLES server, served, tool

toolVars == <<server, served, tool>>

\* The platform's copy of a card, and the update_card calls made on it.
VARIABLES platform, updates

updateVars == <<platform, updates>>

\* The entry point of the refactored server: the environment of the
\* process, the process, and the lines the logger wrote to stderr.
VARIABLES env, process, stderr

startVars == <<env, process, stderr>>

\* One call of executeQueryBuilderCard: where it stands, the requests it
\* has made and how it completed.
VARIABLES execution

executionVars == <<execution>>

\* What a step of one component leaves alone: the variables of the others.
besidesDecoder == <<pipelineVars, toolVars, updateVars, startVars, executionVars>>

besidesPipeline == <<decoderVars, toolVars, updateVars, startVars, executionVars>>

besidesTool == <<decoderVars, pipelineVars, updateVars, startVars, executionVars>>

besidesUpdates == <<decoderVars, pipelineVars, toolVars, startVars, executionVars>>

besidesStart == <<decoderVars, pipelineVars, toolVars, updateVars, executionVars>>

besidesExecution == <<decoderVars, pipelineVars, toolVars, updateVars, startVars>>

\* Not computed: the call has not run, or it left before this step.
NotReached == [t |-> "not reached"]
NotParsed == [ok |-> FALSE, v |-> NotReached]
NotCalled == [kind |-> "not called"]

\* decode is called with one of the links.
DecodeCalled ==
  /\ url \in Links
  /\ dpc = "call"
  /\ fragment = NotReached
  /\ data = NotParsed
  /\ extracted = NotCalled
  /\ result = NotCalled

\* No call of decode.
DecoderIdle ==
  /\ url = <<>>
  /\ dpc = "idle"
  /\ fragment = NotReached
  /\ data = NotParsed
  /\ extracted = NotCalled
  /\ result = NotCalled

\* One call decode(url), from entry to completion.
Decode ==
  /\ dpc = "call"
  /\ dpc' = "done"
  /\ LET f == FragmentOf(url)
         parsed == IF Truthy(f) THEN ParsedData(f) ELSE NotParsed
     IN /\ fragment' = f
        /\ data' = parsed
        /\ extracted' =
             IF parsed.ok /\ CanRead(parsed.v)
             THEN extractParametersFromQuery(Get(parsed.v, Key_dataset_query))
             ELSE NotCalled
  /\ result' = decode(url)
  /\ UNCHANGED url
  /\ UNCHANGED besidesDecoder

(***************************************************************************)
(* The request pipeline: ApiClient (server) and MetabaseClient (client     *)
(* library).  Strings that the code concatenates, searches or cuts are     *)
(* sequences of characters; header names, header values and method names   *)
(* are strings.  A message is the sequence of the pieces of its template.  *)
(***************************************************************************)
DefaultTimeout == 30000

TextLimit == 500

\* `${n}` for a non-negative integer: its decimal digits.
RECURSIVE NumberToString(_)
NumberToString(n) ==
  IF n < 10 THEN <<Digits[n + 1]>>
  ELSE NumberToString(n \div 10) \o <<Digits[(n % 10) + 1]>>

\* { ...a, ...b }: the properties of both, those of b winning.
Spread(a, b) == [k \in (DOMAIN a) \cup (DOMAIN b) |-> IF k \in DOMAIN b THEN b[k] ELSE a[k]]

NoProperties == [k \in {} |-> Undefined]

\* An error with a name and a message, as the runtime and fetch throw them.
ErrorOf(name, message) == [name |-> name, message |-> message]

\* new ApiError(message, statusCode, endpoint, responseText)
ApiError(message, statusCode, endpoint, responseText) ==
  [name |-> "ApiError", code |-> "API_ERROR", message |-> message,
   statusCode |-> statusCode, endpoint |-> endpoint, responseText |-> responseText]

\* new TimeoutError(message, operation, timeoutMs)
TimeoutError(message, operation, timeoutMs) ==
  [name |-> "TimeoutError", code |-> "TIMEOUT_ERROR", message |-> message,
   operation |-> operation, timeoutMs |-> timeoutMs]

\* A parameter with a default value: the default when the argument is omitted.
OrDefault(arg, default) == IF arg = Undefined THEN default ELSE arg.v

\* metabaseUrl.replace(/\/$/, '')
RemoveTrailingSlash(str) ==
  IF Len(str) > 0 /\ str[Len(str)] = "/" THEN SubSeq(str, 1, Len(str) - 1) ELSE str

\* The two default headers.
DefaultHeaders(apiKey) == ("Content-Type" :> "application/json") @@ ("X-API-Key" :> apiKey)

\* new ApiClient(metabaseUrl, apiKey, timeout)
NewApiClient(metabaseUrl, apiKey, timeout) ==
  [kind |-> "ApiClient", metabaseUrl |-> metabaseUrl, apiKey |-> apiKey,
   timeout |-> OrDefault(timeout, DefaultTimeout)]

\* new MetabaseClient(metabaseUrl, apiKey, timeout)
NewMetabaseClient(metabaseUrl, apiKey, timeout) ==
  [kind |-> "MetabaseClient", metabaseUrl |-> RemoveTrailingSlash(metabaseUrl),
   apiKey |-> apiKey, timeout |-> OrDefault(timeout, DefaultTimeout),
   defaultHeaders |-> DefaultHeaders(apiKey)]

\* `${this.metabaseUrl}${endpoint}`
RequestUrl(c, endpoint) == c.metabaseUrl \o endpoint

\* requestOptions: the default options with the caller's options spread
\* over them.
RequestOptions(c, options) ==
  IF c.kind = "ApiClient"
  THEN Spread([headers |-> DefaultHeaders(c.apiKey)], options)
  ELSE Spread([headers |-> Spread(NoProperties, c.defaultHeaders)], options)

\* The argument of fetch: the request options and the signal of the
\* call's own AbortController.
FetchInit(options, signal) == Spread(options, [signal |-> signal])

\* No test of the status at all.
ResponseOk_any(response) == TRUE

\* A status that is no success, taken for one: anything below 400.
ResponseOk_below400(response) == response.status < 400

\* response.ok: the status is in the range 200-299.
ResponseOk(response) == response.status \in 200..299

S_application_json == <<"a", "p", "p", "l", "i", "c", "a", "t", "i", "o", "n", "/", "j", "s", "o", "n">>

\* `!contentType || !contentType.includes('application/json')`
NotJsonType(contentType) ==
  ~Truthy(contentType) \/ ~Includes(contentType.v, S_application_json)

\* The error of a response that is not ok.
HttpFailure(response, endpoint, errorText) ==
  ApiError(<<"API request failed: ">> \o NumberToString(response.status)
             \o <<" ", response.statusText>>,
           response.status, endpoint, errorText)

\* The same error with the whole text.
NonJsonFailure_untruncated(response, endpoint, text) ==
  ApiError(<<"Non-JSON response received">>, response.status, endpoint, text)

\* The error of a response whose content type is not JSON.
NonJsonFailure(response, endpoint, text) ==
  ApiError(<<"Non-JSON response received">>, response.status, endpoint,
           Substring0(text, TextLimit))

\* The catch block of fetchWithTimeout, after clearTimeout: what it throws
\* for the error that fetch threw.
FetchCatch(c, error) ==
  IF error.name = "AbortError"
  THEN IF c.kind = "ApiClient"
       THEN TimeoutError(<<"Request timeout after ">> \o NumberToString(c.timeout) \o <<"ms">>,
                         "fetch", c.timeout)
       ELSE ErrorOf("Error", <<"Request timeout after ">> \o NumberToString(c.timeout) \o <<"ms">>)
  ELSE error

\* `error instanceof ...` of the catch block of makeRequest.
Rethrown(c, error) ==
  IF c.kind = "ApiClient"
  THEN error.name \in {"ApiError", "TimeoutError"}
  ELSE error.name = "ApiError"

\* A catch block that wraps whatever it caught.
MakeRequestCatch_wrapAll(c, error, endpoint) ==
  ApiError(<<"Unexpected error: ">> \o error.message, 0, endpoint, error.message)

\* The catch block of makeRequest: what it throws for the error caught.
MakeRequestCatch(c, error, endpoint) ==
  IF Rethrown(c, error) THEN error
  ELSE ApiError(<<"Unexpected error: ">> \o error.message, 0, endpoint, error.message)

\* What fetch and the body reads throw.
AbortError == ErrorOf("AbortError", <<"This operation was aborted">>)
NetworkError == ErrorOf("TypeError", <<"fetch failed">>)
BodyError == ErrorOf("TypeError", <<"terminated">>)
JsonSyntaxError == ErrorOf("SyntaxError", <<"Unexpected end of JSON input">>)

(***************************************************************************)
(* The clients, the requests and the responses of the model.               *)
(***************************************************************************)
MaxCalls == 2

S_metabaseUrl == <<"h", "t", "t", "p", ":", "/", "/", "m", "b", "/">>
S_card == <<"/", "a", "p", "i", "/", "c", "a", "r", "d", "/", "9">>
S_dataset == <<"/", "a", "p", "i", "/", "d", "a", "t", "a", "s", "e", "t">>

\* A client of each kind, one with the default timeout and one with its own.
Clients ==
  {NewApiClient(S_metabaseUrl, "mb_key", Undefined),
   NewMetabaseClient(S_metabaseUrl, "mb_key", JNum(5000))}

\* The arguments of makeRequest: no options, a write, headers of the caller.
Requests ==
  <<[endpoint |-> S_card, options |-> NoProperties],
    [endpoint |-> S_dataset, options |-> [method |-> "POST", body |-> "{\"database\":1}"]],
    [endpoint |-> S_card, options |-> [headers |-> ("Accept" :> "text/csv")]]>>

Response(status, statusText, contentType, body) ==
  [status |-> status, statusText |-> statusText, contentType |-> contentType, body |-> body]

\* A page one character longer than what an error keeps of a body.
LongPage == <<"<", "h", "t", "m", "l", ">">> \o Seq1([i \in 1..(TextLimit - 5) |-> "x"])

\* What a server may answer.  contentType is what headers.get returns:
\* the value, or null when the header is absent.
Responses ==
  <<Response(200, "OK", JStr(S_application_json), <<"{", "\"", "i", "d", "\"", ":", "1", "}">>),
    Response(200, "OK", JStr(<<"a", "p", "p", "l", "i", "c", "a", "t", "i", "o", "n", "/", "j", "s", "o", "n", ";", " ", "c", "h", "a", "r", "s", "e", "t", "=", "u", "t", "f", "-", "8">>), <<"[", "]">>),
    Response(200, "OK", JStr(S_application_json), <<"{", "\"", "i", "d", "\"", ":">>),
    Response(200, "OK", JStr(<<"t", "e", "x", "t", "/", "h", "t", "m", "l">>), LongPage),
    Response(202, "Accepted", JNull, <<"o", "k">>),
    Response(304, "Not Modified", JNull, <<>>),
    Response(404, "Not Found", JStr(S_application_json), <<"N", "o", "t", " ", "f", "o", "u", "n", "d", ".">>),
    Response(500, "Internal Server Error", JStr(S_application_json), <<"{", "\"", "i", "d", "\"", ":", "1", "}">>)>>

(***************************************************************************)
(* State of the pipeline: the client, the invocations of makeRequest made  *)
(* on it, and the HTTP calls handed to fetch.  An invocation is at the     *)
(* await it is suspended on (pc), or done with its completion (outcome);   *)
(* reads lists the members of the response it has used, body tells how     *)
(* the read of the response's body ended and raised is the error that      *)
(* reached the catch block of makeRequest.  The variables are client,      *)
(* calls and sent.                                                         *)
(***************************************************************************)
NoResponse == [t |-> "no response"]
NoClient == [kind |-> "none"]

PipelineIdle ==
  /\ client = NoClient
  /\ calls = <<>>
  /\ sent = <<>>

PipelineInit ==
  /\ client \in Clients
  /\ calls = <<>>
  /\ sent = <<>>

\* A timer that is left as it is.
ClearTimeout_forgotten(timer) == timer

\* clearTimeout(timeoutId): a pending timer is cancelled; on a timer that
\* has fired it has no effect.
ClearTimeout(timer) == IF timer = "pending" THEN "cleared" ELSE timer

\* Invocation i returns value: nothing was raised.
Complete(i, timer, body, value) ==
  calls' = [calls EXCEPT ![i].pc = "done", ![i].timer = timer, ![i].body = body,
                         ![i].raised = NotCalled, ![i].outcome = Return(value)]

\* Error is raised in the try block of invocation i: the catch block
\* decides what the invocation throws.
Fail(i, timer, body, error) ==
  calls' = [calls EXCEPT ![i].pc = "done", ![i].timer = timer, ![i].body = body,
                         ![i].raised = error,
                         ![i].outcome = Throw(MakeRequestCatch(client, error, calls[i].endpoint))]

\* An invocation that hands its request to fetch twice.
MakeRequest_sentTwice(endpoint, options) ==
  /\ Len(calls) < MaxCalls
  /\ LET i == Len(calls) + 1
         requestUrl == RequestUrl(client, endpoint)
         requestOptions == RequestOptions(client, options)
     IN /\ calls' = Append(calls,
             [endpoint |-> endpoint, options |-> options, pc |-> "fetch",
              timer |-> "pending", aborted |-> FALSE, response |-> NoResponse,
              reads |-> <<>>, body |-> "unread", raised |-> NotCalled,
              outcome |-> NotCalled])
        /\ sent' = sent \o <<[call |-> i, url |-> requestUrl,
                              init |-> FetchInit(requestOptions, i)],
                             [call |-> i, url |-> requestUrl,
                              init |-> FetchInit(requestOptions, i)]>>
  /\ UNCHANGED client
  /\ UNCHANGED besidesPipeline

\* makeRequest(endpoint, options) up to the await of fetch: the request is
\* built, the timer started, fetch called.
MakeRequest(endpoint, options) ==
  /\ Len(calls) < MaxCalls
  /\ LET i == Len(calls) + 1
         requestUrl == RequestUrl(client, endpoint)
         requestOptions == RequestOptions(client, options)
     IN /\ calls' = Append(calls,
             [endpoint |-> endpoint, options |-> options, pc |-> "fetch",
              timer |-> "pending", aborted |-> FALSE, response |-> NoResponse,
              reads |-> <<>>, body |-> "unread", raised |-> NotCalled,
              outcome |-> NotCalled])
        /\ sent' = Append(sent, [call |-> i, url |-> requestUrl,
                                 init |-> FetchInit(requestOptions, i)])
  /\ UNCHANGED client
  /\ UNCHANGED besidesPipeline

\* One controller shared by the invocations: the timer of invocation i
\* aborts every call of fetch in flight.
TimerFires_sharedController(i) ==
  /\ calls[i].timer = "pending"
  /\ calls' = [j \in 1..Len(calls) |->
                IF j = i THEN [calls[j] EXCEPT !.timer = "fired", !.aborted = TRUE]
                ELSE IF calls[j].pc = "fetch" THEN [calls[j] EXCEPT !.aborted = TRUE]
                ELSE calls[j]]
  /\ UNCHANGED <<client, sent>>
  /\ UNCHANGED besidesPipeline

\* The timer of invocation i expires: controller.abort().
TimerFires(i) ==
  /\ calls[i].timer = "pending"
  /\ calls' = [calls EXCEPT ![i].timer = "fired", ![i].aborted = TRUE]
  /\ UNCHANGED <<client, sent>>
  /\ UNCHANGED besidesPipeline

\* fetch resolves with a response: clearTimeout, then makeRequest runs to
\* its next await, the text read or the JSON read of the body.
FetchResolves(i, response) ==
  /\ calls[i].pc = "fetch"
  /\ ~calls[i].aborted
  /\ LET next == IF ~ResponseOk(response)
                 THEN [pc |-> "text of error", reads |-> <<"ok", "text">>]
                 ELSE IF NotJsonType(response.contentType)
                 THEN [pc |-> "text of non-JSON", reads |-> <<"ok", "headers.get", "text">>]
                 ELSE [pc |-> "json", reads |-> <<"ok", "headers.get", "json">>]
     IN calls' = [calls EXCEPT ![i].pc = next.pc,
                               ![i].timer = ClearTimeout(calls[i].timer),
                               ![i].response = response, ![i].reads = next.reads]
  /\ UNCHANGED <<client, sent>>
  /\ UNCHANGED besidesPipeline

\* fetch rejects because the signal was aborted.
FetchAborted(i) ==
  /\ calls[i].pc = "fetch"
  /\ calls[i].aborted
  /\ Fail(i, ClearTimeout(calls[i].timer), "unread", FetchCatch(client, AbortError))
  /\ UNCHANGED <<client, sent>>
  /\ UNCHANGED besidesPipeline

\* fetch rejects on its own: no connection, no name resolution.
FetchFails(i) ==
  /\ calls[i].pc = "fetch"
  /\ ~calls[i].aborted
  /\ Fail(i, ClearTimeout(calls[i].timer), "unread", FetchCatch(client, NetworkError))
  /\ UNCHANGED <<client, sent>>
  /\ UNCHANGED besidesPipeline

\* response.text() resolves with the body.
TextResolves(i) ==
  /\ calls[i].pc \in {"text of error", "text of non-JSON"}
  /\ LET c == calls[i]
         error == IF c.pc = "text of error"
                  THEN HttpFailure(c.response, c.endpoint, c.response.body)
                  ELSE NonJsonFailure(c.response, c.endpoint, c.response.body)
     IN Fail(i, c.timer, "read", error)
  /\ UNCHANGED <<client, sent>>
  /\ UNCHANGED besidesPipeline

\* response.json() settles: the parsed body, or the SyntaxError of the parse.
JsonResolves(i) ==
  /\ calls[i].pc = "json"
  /\ LET c == calls[i]
         parsed == JSONParse(c.response.body)
     IN IF parsed.ok THEN Complete(i, c.timer, "read", parsed.v)
        ELSE Fail(i, c.timer, "read", JsonSyntaxError)
  /\ UNCHANGED <<client, sent>>
  /\ UNCHANGED besidesPipeline

\* The read of the body rejects: the connection broke after the headers.
BodyRejects(i) ==
  /\ calls[i].pc \in {"text of error", "text of non-JSON", "json"}
  /\ Fail(i, calls[i].timer, "failed", BodyError)
  /\ UNCHANGED <<client, sent>>
  /\ UNCHANGED besidesPipeline

(***************************************************************************)
(* The tool-call handlers.  The legacy server (src/src/server/index.js)    *)
(* dispatches a tool call in the switch of its CallTool handler and sends  *)
(* its HTTP calls with makeApiRequest; the refactored server               *)
(* (MetabaseMCPServer.executeTool) dispatches to handler classes that use  *)
(* ApiClient.makeRequest, and registers no write tool.  The model follows  *)
(* the read tools get_card, list_dashboards and list_metrics and the nine  *)
(* write tools; the text of a successful result is cut to its first line.  *)
(***************************************************************************)
Key_cardId == <<"c", "a", "r", "d", "I", "d">>
Key_collectionId == <<"c", "o", "l", "l", "e", "c", "t", "i", "o", "n", "I", "d">>
Key_dashboardId == <<"d", "a", "s", "h", "b", "o", "a", "r", "d", "I", "d">>
Key_databaseId == <<"d", "a", "t", "a", "b", "a", "s", "e", "I", "d">>
Key_tableId == <<"t", "a", "b", "l", "e", "I", "d">>
Key_fieldId == <<"f", "i", "e", "l", "d", "I", "d">>
Key_cards == <<"c", "a", "r", "d", "s">>
Key_length == <<"l", "e", "n", "g", "t", "h">>

\* `${x}` of a template literal.
TemplateValue(x) ==
  CASE x.t = "undefined" -> <<"undefined">>
    [] x.t = "null" -> <<"null">>
    [] x.t = "num" -> IF x.v < 0 THEN <<"-">> \o NumberToString(0 - x.v)
                      ELSE NumberToString(x.v)
    [] x.t = "float" -> x.v
    [] x.t = "str" -> x.v
    [] x.t = "bool" -> IF x.v THEN <<"true">> ELSE <<"false">>
    [] x.t = "obj" -> <<"[object Object]">>

\* The TypeError of reading property key of undefined or null.
ReadOfNothing(x, key) ==
  ErrorOf("TypeError", <<"Cannot read properties of ", x.t, " (reading '">> \o key \o <<"')">>)

\* The TypeError of calling a method the value does not have.
NotAFunction(variable, method) ==
  ErrorOf("TypeError", <<variable, ".", method, " is not a function">>)

\* new ToolExecutionError(message, toolName, originalError)
ToolExecutionError(message, toolName, originalError) ==
  [name |-> "ToolExecutionError", code |-> "TOOL_EXECUTION_ERROR", message |-> message,
   toolName |-> toolName, originalError |-> originalError]

\* Validators.validateCardId passes: a positive integer.
ValidCardId(cardId) == cardId.t = "num" /\ cardId.v >= 1

\* Validators.validateLimit(limit, min, max) passes.
ValidLimit(limit, min, max) == limit.t = "num" /\ limit.v >= min /\ limit.v <= max

\* Validators.validateQuery and validateUrl pass: a string that is not
\* empty after trim().
NonEmptyString(x) ==
  x.t = "str" /\ \E i \in 1..Len(x.v) : x.v[i] \notin {" ", TAB, LF, CR}

\* The message and the field of the validator of each identifier.
IdValidators ==
  (Key_cardId :> [message |-> "Card ID must be a positive integer", field |-> "cardId"])
  @@ (Key_dashboardId :> [message |-> "Dashboard ID must be a positive integer",
                          field |-> "dashboardId"])
  @@ (Key_databaseId :> [message |-> "Database ID must be a positive integer",
                         field |-> "databaseId"])
  @@ (Key_tableId :> [message |-> "Table ID must be a positive integer",
                      field |-> "tableId"])
  @@ (Key_fieldId :> [message |-> "Field ID must be a positive integer",
                      field |-> "fieldId"])

\* Validators.validateCardId, validateDashboardId, validateDatabaseId,
\* validateTableId and validateFieldId: what the call returns or throws.
validateId(key, id) ==
  IF ValidCardId(id) THEN Return(Undefined)
  ELSE Throw(ValidationError(<<IdValidators[key].message>>, IdValidators[key].field, id))

validateLimit(limit, min, max) ==
  IF ValidLimit(limit, min, max) THEN Return(Undefined)
  ELSE Throw(ValidationError(<<"Limit must be an integer between ">> \o NumberToString(min)
                               \o <<" and ">> \o NumberToString(max), "limit", limit))

validateQuery(query) ==
  IF NonEmptyString(query) THEN Return(Undefined)
  ELSE Throw(ValidationError(<<"Query must be a non-empty string">>, "query", query))

validateUrl(link) ==
  IF NonEmptyString(link) THEN Return(Undefined)
  ELSE Throw(ValidationError(<<"URL must be a non-empty string">>, "url", link))

\* A parameter with a default value, as a value: `limit = 20`.
DefaultTo(arg, default) == IF arg = Undefined THEN default ELSE arg

\* A result with one text, and an error result: the same with isError.
TextResult(text) == [content |-> <<[type |-> "text", text |-> text]>>]

ErrorResult(text) == [content |-> <<[type |-> "text", text |-> text]>>, isError |-> TRUE]

\* An HTTP call of a handler.
HttpCall(method, endpoint) == [method |-> method, endpoint |-> endpoint]

\* A handler: how it proceeds (kind), the argument it is called with
\* (idKey, none for a handler called with all arguments or with none), its
\* endpoint, the first line of its text, the text its own catch block puts
\* before the message (none without such a catch block) and the text it
\* returns for a 404 (none without such a fallback).  The kinds are
\*   get:     GET endpoint/id, format the resource;
\*   list:    GET endpoint, format the array (variable.method of the text);
\*   create:  read the data, POST endpoint;
\*   update:  GET endpoint/id, merge, PUT endpoint/id;
\*   replace: PUT endpoint/id/cards, format the cards;
\*   query:   POST endpoint with the database and the query;
\*   link:    decode the link, GET endpoint/originalCardId.
\* The suffix is what the endpoint of a get handler has after the id.
Handler(kind, idKey, endpoint, success, prefix, fallback) ==
  [kind |-> kind, idKey |-> idKey, endpoint |-> endpoint, success |-> success,
   prefix |-> prefix, fallback |-> fallback, variable |-> "", method |-> "",
   suffix |-> ""]

ListHandler(endpoint, success, variable, method, fallback) ==
  [kind |-> "list", idKey |-> <<>>, endpoint |-> endpoint, success |-> success,
   prefix |-> "", fallback |-> fallback, variable |-> variable, method |-> method,
   suffix |-> ""]

S_notAvailable == "Metrics endpoint not available in this Metabase version"

S_activityNotAvailable == "Activity endpoint not available in this Metabase version"

\* The read tools of both servers.
ReadHandlers ==
  ("get_card" :> Handler("get", Key_cardId, "/api/card", "Card Information:", "", ""))
  @@ ("list_dashboards" :> ListHandler("/api/dashboard", "Found ", "dashboards", "slice", ""))
  @@ ("list_metrics" :> ListHandler("/api/metric", "Metrics:", "metrics", "map", S_notAvailable))
  @@ ("get_activity" :> [ListHandler("/api/activity", "Recent Activity (last ", "activity",
                                     "map", S_activityNotAvailable)
                           EXCEPT !.idKey = Key_limit])
  @@ ("get_dashboard" :> Handler("get", Key_dashboardId, "/api/dashboard",
                                 "Dashboard Information:", "", ""))
  @@ ("get_database" :> Handler("get", Key_databaseId, "/api/database",
                                "Database Information:", "", ""))
  @@ ("get_table_metadata" :> [Handler("get", Key_tableId, "/api/table",
                                       "Table Metadata:", "", "")
                                 EXCEPT !.suffix = "/query_metadata"])
  @@ ("get_field" :> Handler("get", Key_fieldId, "/api/field", "Field Information:", "", ""))
  @@ ("execute_native_query" :> Handler("query", Key_databaseId, "/api/dataset",
                                        "Query Execution Results:", "", ""))
  @@ ("get_card_with_parameters" :> Handler("link", Str_url, "/api/card",
                                            "Card with Parameters:", "", ""))

\* get_card_with_parameters of the legacy server has a catch block.
LegacyLinkHandlers ==
  "get_card_with_parameters" :> Handler("link", Str_url, "/api/card", "Card with Parameters:",
                                        "Error extracting card with parameters: ", "")

\* The write tools of the legacy server.
WriteHandlers ==
  ("create_card" :> Handler("create", <<>>, "/api/card",
                            "Card Created Successfully:", "Error creating card: ", ""))
  @@ ("update_card" :> Handler("update", Key_cardId, "/api/card",
                               "Card Updated Successfully:", "Error updating card: ", ""))
  @@ ("create_collection" :> Handler("create", <<>>, "/api/collection",
                                     "Collection Created Successfully:",
                                     "Error creating collection: ", ""))
  @@ ("update_collection" :> Handler("update", Key_collectionId, "/api/collection",
                                     "Collection Updated Successfully:",
                                     "Error updating collection: ", ""))
  @@ ("create_dashboard" :> Handler("create", <<>>, "/api/dashboard",
                                    "Dashboard Created Successfully:",
                                    "Error creating dashboard: ", ""))
  @@ ("update_dashboard" :> Handler("update", Key_dashboardId, "/api/dashboard",
                                    "Dashboard Updated Successfully:",
                                    "Error updating dashboard: ", ""))
  @@ ("update_dashboard_cards" :> Handler("replace", Key_dashboardId, "/api/dashboard",
                                          "Dashboard Cards Updated Successfully:",
                                          "Error updating dashboard cards: ", ""))
  @@ ("create_database" :> Handler("create", <<>>, "/api/database",
                                   "Database Created Successfully:",
                                   "Error creating database: ", ""))
  @@ ("update_database" :> Handler("update", Key_databaseId, "/api/database",
                                   "Database Updated Successfully:",
                                   "Error updating database: ", ""))

\* The cases of the switch of a server, among the tools of the model.
Handlers(srv) ==
  IF srv = "legacy" THEN LegacyLinkHandlers @@ ReadHandlers @@ WriteHandlers
  ELSE ReadHandlers

\* The error of the default case of the switch.
UnknownTool(srv, name) ==
  IF srv = "legacy" THEN ErrorOf("Error", <<"Unknown tool: ", name>>)
  ELSE ToolExecutionError(<<"Unknown tool: ", name>>, name, JNull)

\* The body of a response whose read rejects: the connection broke after
\* the headers.
Unreadable == <<"<unreadable>">>

\* makeApiRequest of the legacy server, for what the platform answers:
\* a response, or no response when fetch rejects.
makeApiRequest(answer) ==
  IF answer = NoResponse THEN Throw(NetworkError)
  ELSE IF answer.body = Unreadable THEN Throw(BodyError)
  ELSE IF ~ResponseOk(answer)
  THEN Throw(ErrorOf("Error", <<"API request failed: ">> \o NumberToString(answer.status)
                                \o <<" ", answer.statusText, " - ">> \o answer.body))
  ELSE IF NotJsonType(answer.contentType)
  THEN Throw(ErrorOf("Error", <<"Non-JSON response: ">> \o Substring0(answer.body, TextLimit)))
  ELSE LET parsed == JSONParse(answer.body)
       IN IF parsed.ok THEN Return(parsed.v) ELSE Throw(JsonSyntaxError)

\* this.apiClient of the refactored server.
ServerClient == NewApiClient(S_metabaseUrl, "mb_key", JNum(DefaultTimeout))

\* No answer within the timeout the server was configured with: the timer
\* of fetchWithTimeout fires.
TimedOut(timeout) == [t |-> "timed out", timeout |-> timeout]

\* The timeouts the server may be configured with (REQUEST_TIMEOUT).
ConfiguredTimeouts == {DefaultTimeout, 4040}

IsTimedOut(answer) == answer \in {TimedOut(ms) : ms \in ConfiguredTimeouts}

\* apiClient.makeRequest of the refactored server, for the same answers
\* and for a timer that fires before fetch resolves.
apiClientMakeRequest(endpoint, answer) ==
  LET failed(error) == Throw(MakeRequestCatch(ServerClient, error, endpoint))
  IN IF IsTimedOut(answer)
     THEN failed(FetchCatch(NewApiClient(S_metabaseUrl, "mb_key", JNum(answer.timeout)),
                            AbortError))
     ELSE IF answer = NoResponse THEN failed(FetchCatch(ServerClient, NetworkError))
     ELSE IF answer.body = Unreadable THEN failed(BodyError)
     ELSE IF ~ResponseOk(answer) THEN failed(HttpFailure(answer, endpoint, answer.body))
     ELSE IF NotJsonType(answer.contentType)
     THEN failed(NonJsonFailure(answer, endpoint, answer.body))
     ELSE LET parsed == JSONParse(answer.body)
          IN IF parsed.ok THEN Return(parsed.v) ELSE failed(JsonSyntaxError)

\* A catch block that throws what it caught.
DispatcherCatch_rethrow(name, error) == Throw(error)

\* The catch block of the CallTool handler: an error result is returned.
DispatcherCatch(name, error) ==
  Return(ErrorResult(<<"Error executing ", name, ": ">> \o error.message))

\* A tool call that has been received: nothing is sent, nothing has failed.
Received(name, args) ==
  [name |-> name, args |-> args, pc |-> "received", requests |-> <<>>,
   failure |-> NotCalled, caughtBy |-> "none", completion |-> NotCalled]

\* The handler awaits an HTTP call.
Awaiting(inv, request) == [inv EXCEPT !.pc = "awaiting", !.requests = Append(@, request)]

\* The handler returns a result.
Returns(inv, r) == [inv EXCEPT !.pc = "done", !.completion = Return(r)]

\* An error reaches the catch block of the CallTool handler.
Dispatched(inv, error) ==
  [inv EXCEPT !.pc = "done", !.failure = error, !.caughtBy = "dispatcher",
              !.completion = DispatcherCatch(inv.name, error)]

\* An error is thrown in the try block of handler h: its own catch block
\* returns an error result, the catch block of a version-gated endpoint
\* returns a text for a message with 404 in it and throws any other error
\* again, a handler without a catch block lets the error through.
HandlerCatch(inv, h, error) ==
  IF h.prefix # ""
  THEN [inv EXCEPT !.pc = "done", !.failure = error, !.caughtBy = "handler",
                   !.completion = Return(ErrorResult(<<h.prefix>> \o error.message))]
  ELSE IF h.fallback # "" /\ Includes(error.message, <<"4", "0", "4">>)
  THEN [inv EXCEPT !.pc = "done", !.failure = error, !.caughtBy = "handler",
                   !.completion = Return(TextResult(<<h.fallback>>))]
  ELSE Dispatched(inv, error)

\* A handler that asks for a confirmation before it writes.
StartHandler_confirmFirst(srv, inv, h) ==
  IF h.kind \in {"create", "update", "replace"}
  THEN Returns(inv, TextResult(<<"Confirmation required">>))
  ELSE Awaiting(inv, HttpCall("GET", <<h.endpoint>>))

\* decodeDashboardUrl of the legacy server: the try block of decode, and a
\* catch block that wraps every error, that of a url without split too.
decodeDashboardUrl(link) ==
  LET wrapped(message) ==
        Throw(ErrorOf("Error", <<"Failed to decode dashboard URL: ">> \o message))
  IN IF link.t # "str" THEN wrapped(<<"TypeError">>)
     ELSE With(decodeTry(link.v),
               LAMBDA r : IF r.kind = "return" THEN r
                          ELSE IF r.error.name = "ValidationError"
                          THEN wrapped(r.error.message)
                          ELSE wrapped(<<r.error.name>>))

\* A handler that validates nothing.
Validation_skipped(h, args, id) == Return(Undefined)

\* The calls of Validators at the head of handler h of the refactored
\* server: what they return or throw.
Validation(h, args, id) ==
  CASE h.kind = "get" -> validateId(h.idKey, id)
    [] h.kind = "list" /\ h.idKey # <<>> -> validateLimit(DefaultTo(id, JNum(20)), 1, 100)
    [] h.kind = "query" ->
         IF validateId(h.idKey, id).kind = "throw" THEN validateId(h.idKey, id)
         ELSE validateQuery(Get(args, Key_query))
    [] h.kind = "link" -> validateUrl(id)
    [] OTHER -> Return(Undefined)

\* A handler that sends its request before it looks at its argument.
StartHandler_fetchFirst(srv, inv, h) ==
  IF h.kind = "link" THEN Awaiting(inv, HttpCall("GET", <<h.endpoint, "/", "undefined">>))
  ELSE Awaiting(inv, HttpCall("GET", <<h.endpoint>>))

\* Handler h from its call to its first await.
StartHandler(srv, inv, h) ==
  LET id == IF h.idKey = <<>> THEN Undefined ELSE Get(inv.args, h.idKey)
      resource == <<h.endpoint, "/">> \o TemplateValue(id)
                    \o (IF h.suffix = "" THEN <<>> ELSE <<h.suffix>>)
      checked == IF srv = "refactored" THEN Validation(h, inv.args, id)
                 ELSE Return(Undefined)
  IN IF checked.kind = "throw" THEN Dispatched(inv, checked.error)
     ELSE CASE h.kind = "get" -> Awaiting(inv, HttpCall("GET", resource))
       [] h.kind = "list" ->
            IF h.idKey = <<>> THEN Awaiting(inv, HttpCall("GET", <<h.endpoint>>))
            ELSE Awaiting(inv, HttpCall("GET", <<h.endpoint, "?limit=">>
                                   \o TemplateValue(DefaultTo(id, JNum(20)))))
       [] h.kind = "create" ->
            IF ~CanRead(inv.args) THEN HandlerCatch(inv, h, ReadOfNothing(inv.args, Key_name))
            ELSE Awaiting(inv, HttpCall("POST", <<h.endpoint>>))
       [] h.kind = "update" -> Awaiting(inv, HttpCall("GET", resource))
       [] h.kind = "replace" -> Awaiting(inv, HttpCall("PUT", resource \o <<"/cards">>))
       [] h.kind = "query" -> Awaiting(inv, HttpCall("POST", <<h.endpoint>>))
       [] h.kind = "link" ->
            With(IF srv = "legacy" THEN decodeDashboardUrl(id) ELSE decode(id.v),
                 LAMBDA decoded :
                   IF decoded.kind = "throw" THEN HandlerCatch(inv, h, decoded.error)
                   ELSE Awaiting(inv, HttpCall("GET", <<h.endpoint, "/">>
                                   \o TemplateValue(decoded.value.originalCardId))))

\* Handler h from the completion of the HTTP call it awaits to its next
\* await or to its end.
ResumeHandler(inv, h, outcome) ==
  IF outcome.kind = "throw" THEN HandlerCatch(inv, h, outcome.error)
  ELSE CASE h.kind = "get" -> Returns(inv, TextResult(<<h.success>>))
         [] h.kind = "list" ->
              IF outcome.value.t = "arr" THEN Returns(inv, TextResult(<<h.success>>))
              ELSE HandlerCatch(inv, h, NotAFunction(h.variable, h.method))
         [] h.kind = "create" -> Returns(inv, TextResult(<<h.success>>))
         [] h.kind = "update" ->
              IF Len(inv.requests) = 1
              THEN Awaiting(inv, HttpCall("PUT", inv.requests[1].endpoint))
              ELSE Returns(inv, TextResult(<<h.success>>))
         [] h.kind = "replace" ->
              IF ~CanRead(Get(inv.args, Key_cards))
              THEN HandlerCatch(inv, h, ReadOfNothing(Get(inv.args, Key_cards), Key_length))
              ELSE Returns(inv, TextResult(<<h.success>>))
         [] h.kind = "query" -> Returns(inv, TextResult(<<h.success>>))
         [] h.kind = "link" -> Returns(inv, TextResult(<<h.success>>))

\* The CallTool handler from the request to the first await of the tool's
\* handler: the case of the switch reads the handler's argument from args.
CallToolRequest(srv, name, args) ==
  LET inv == Received(name, args)
  IN IF name \notin DOMAIN Handlers(srv) THEN Dispatched(inv, UnknownTool(srv, name))
     ELSE LET h == Handlers(srv)[name]
          IN IF h.idKey # <<>> /\ ~CanRead(args)
             THEN Dispatched(inv, ReadOfNothing(args, h.idKey))
             ELSE StartHandler(srv, inv, h)

(***************************************************************************)
(* The tool calls of the model.                                            *)
(***************************************************************************)
MaxToolCalls == 2

\* The names a client may call: the tools above and one that is no tool.
ToolNames == (DOMAIN ReadHandlers) \cup (DOMAIN WriteHandlers) \cup {"drop_table"}

\* An arguments object: every identifier is id.
Arguments(id, limit, query, link) ==
  JObj((Key_cardId :> id) @@ (Key_collectionId :> id) @@ (Key_dashboardId :> id)
       @@ (Key_databaseId :> id) @@ (Key_tableId :> id) @@ (Key_fieldId :> id)
       @@ (Key_name :> JStr(<<"Q">>)) @@ (Key_cards :> JArr(<<>>))
       @@ (Key_limit :> limit) @@ (Key_query :> query) @@ (Str_url :> link))

\* A link to a question whose document has original_card_id with the JSON
\* text given.
CardLink(idText) ==
  JStr(LinkOf(ObjectText(<<Member(Key_original_card_id, idText), DisplayMember>>)))

S_select == <<"S", "E", "L", "E", "C", "T", " ", "1">>

\* The arguments: none, an empty object, objects whose values pass the
\* validators, and objects whose values are what a validator refuses (zero,
\* a negative number, a number as a string, a fraction, null, nothing, a
\* limit above the maximum, an empty and a blank string, a number for a
\* string) or a link that decode refuses or that names no card.
ToolArguments ==
  <<Undefined, JObj(NoProperties),
   Arguments(JNum(9), Undefined, JStr(S_select), CardLink(<<"4", "2">>)),
   Arguments(JNum(1), JNum(1), JStr(<<"S">>), JStr(LinkOf(T_obj))),
   Arguments(JNum(9), JNum(100), JStr(S_select), CardLink(T_x)),
   Arguments(JNum(9), JNum(5), JStr(S_select), CardLink(T_zero)),
   Arguments(JNum(9), JNum(5), JStr(S_select), CardLink(<<"-", "1">>)),
   Arguments(JNum(9), JNum(5), JStr(S_select), CardLink(<<"1", ".", "5">>)),
   Arguments(JNum(9), JNum(5), JStr(S_select), CardLink(T_null)),
   Arguments(JNum(9), JNum(5), JStr(S_select), JStr(LinkPrefix)),
   Arguments(JNum(9), JNum(5), JStr(S_select), JStr(LinkPrefix \o <<"#", "!">>)),
   Arguments(JNum(9), JNum(5), JStr(<<>>), CardLink(<<"4", "2">>)),
   Arguments(JNum(0), JNum(0), JStr(<<>>), JStr(<<>>)),
   Arguments(JNum(0 - 1), JNum(101), JStr(<<" ">>), JStr(<<" ">>)),
   Arguments(JStr(<<"9">>), JStr(<<"5">>), JNum(7), JNum(7)),
   Arguments(JFloat(<<"1", ".", "5">>), JFloat(<<"1", ".", "5">>), JNull, JNull),
   Arguments(JNull, JNull, Undefined, Undefined)>>

\* What the platform answers to a handler: a JSON object, a JSON array, a
\* page, a 404, a 404 whose body cannot be read, a 500 whose body holds
\* the digits 404, nothing, or nothing before the timer fires.
ToolAnswers ==
  {Responses[1], Responses[2], Responses[4], Responses[7],
   [Responses[7] EXCEPT !.body = Unreadable],
   [Responses[8] EXCEPT !.body = <<"n", "o", " ", "4", "0", "4">>],
   NoResponse}
  \cup {TimedOut(ms) : ms \in ConfiguredTimeouts}

(***************************************************************************)
(* State of the tool-call handler.  A server answers one tool call after   *)
(* the other here: the handlers keep nothing between tool calls, and a     *)
(* tool call is at the await of its HTTP call (pc) or done with its        *)
(* completion; requests are the HTTP calls it has made, failure is the     *)
(* error thrown in its handler and caughtBy tells which catch block got    *)
(* it.  The variables are server, served and tool.                         *)
(***************************************************************************)
NoTool == [pc |-> "none"]

ToolIdle ==
  /\ server = "none"
  /\ served = 0
  /\ tool = NoTool

ToolInit ==
  /\ server \in {"legacy", "refactored"}
  /\ served = 0
  /\ tool = NoTool

\* A tool call arrives when the one before it is answered.
CallTool(name, args) ==
  /\ tool.pc \in {"none", "done"}
  /\ served < MaxToolCalls
  /\ tool' = CallToolRequest(server, name, args)
  /\ served' = IF tool.pc = "done" THEN served + 1 ELSE served
  /\ UNCHANGED server
  /\ UNCHANGED besidesTool

\* The HTTP call the handler awaits completes.
RequestSettles(answer) ==
  /\ tool.pc = "awaiting"
  /\ IsTimedOut(answer) => server = "refactored"
  /\ LET endpoint == tool.requests[Len(tool.requests)].endpoint
         outcome == IF server = "legacy" THEN makeApiRequest(answer)
                    ELSE apiClientMakeRequest(endpoint, answer)
     IN tool' = ResumeHandler(tool, Handlers(server)[tool.name], outcome)
  /\ UNCHANGED <<server, served>>
  /\ UNCHANGED besidesTool

(***************************************************************************)
(* update_card of the legacy server against the platform's copy of the     *)
(* card: the handler GETs the card, merges the caller's updates into it    *)
(* and PUTs the merged body.  Several update_card calls may be in flight.  *)
(***************************************************************************)
Key_collection_id == <<"c", "o", "l", "l", "e", "c", "t", "i", "o", "n", "_", "i", "d">>

\* a || b
OrElse(a, b) == IF Truthy(a) THEN a ELSE b

\* a !== undefined ? a : b
UnlessUndefined(a, b) == IF a # Undefined THEN a ELSE b

\* updateCard: the body it PUTs, merged from updates and currentCard.
CardBody(upd, currentCard) ==
  (Key_name :> OrElse(Get(upd, Key_name), Get(currentCard, Key_name)))
  @@ (Key_description :> UnlessUndefined(Get(upd, Key_description),
                                         Get(currentCard, Key_description)))
  @@ (Key_dataset_query :> OrElse(Get(upd, Key_dataset_query),
                                  Get(currentCard, Key_dataset_query)))
  @@ (Key_display :> OrElse(Get(upd, Key_display), Get(currentCard, Key_display)))
  @@ (Key_visualization_settings :> OrElse(Get(upd, Key_visualization_settings),
                                           Get(currentCard, Key_visualization_settings)))
  @@ (Key_collection_id :> UnlessUndefined(Get(upd, Key_collection_id),
                                           Get(currentCard, Key_collection_id)))

\* The platform stores a PUT: the members of JSON.stringify(body), which
\* leaves out the properties that are undefined, replace the stored ones.
StorePut(stored, body) ==
  [k \in DOMAIN stored |->
     IF k \in DOMAIN body /\ body[k] # Undefined THEN body[k] ELSE stored[k]]

MaxUpdates == 2

\* The card as it is stored before any update.
StoredCard ==
  (Key_name :> JStr(<<"Q">>)) @@ (Key_description :> JNull)
  @@ (Key_dataset_query :> JObj(NoProperties)) @@ (Key_display :> JStr(<<"table">>))
  @@ (Key_visualization_settings :> JObj(NoProperties)) @@ (Key_collection_id :> JNum(1))

\* The arguments of update_card: a new name, a new description, a new
\* display, or a new name and a new collection.
CardUpdates ==
  {JObj((Key_cardId :> JNum(9)) @@ (Key_name :> JStr(<<"R">>))),
   JObj((Key_cardId :> JNum(9)) @@ (Key_description :> JStr(<<"d">>))),
   JObj((Key_cardId :> JNum(9)) @@ (Key_display :> JStr(<<"bar">>))),
   JObj((Key_cardId :> JNum(9)) @@ (Key_name :> JStr(<<"S">>)) @@ (Key_collection_id :> JNull))}

NoBody == [t |-> "no body"]

UpdatesIdle ==
  /\ platform = NoProperties
  /\ updates = <<>>

UpdatesInit ==
  /\ platform = StoredCard
  /\ updates = <<>>

\* update_card is called: updateCard runs to the await of its GET.
UpdateCard(args) ==
  /\ Len(updates) < MaxUpdates
  /\ updates' = Append(updates,
                       [call |-> CallToolRequest("legacy", "update_card", args),
                        body |-> NoBody])
  /\ UNCHANGED platform
  /\ UNCHANGED besidesUpdates

\* The GET returns the card as it is stored now: updateCard merges the
\* body and runs to the await of its PUT.
CurrentCardReturns(i) ==
  /\ updates[i].call.pc = "awaiting"
  /\ Len(updates[i].call.requests) = 1
  /\ updates' = [updates EXCEPT
                   ![i].call = ResumeHandler(@, WriteHandlers["update_card"],
                                             Return(JObj(platform))),
                   ![i].body = CardBody(updates[i].call.args, JObj(platform))]
  /\ UNCHANGED platform
  /\ UNCHANGED besidesUpdates

\* The platform stores the PUT and answers with the card: updateCard
\* returns its result.
PutReturns(i) ==
  /\ updates[i].call.pc = "awaiting"
  /\ Len(updates[i].call.requests) = 2
  /\ platform' = StorePut(platform, updates[i].body)
  /\ updates' = [updates EXCEPT
                   ![i].call = ResumeHandler(@, WriteHandlers["update_card"],
                                             Return(JObj(platform')))]
  /\ UNCHANGED besidesUpdates

\* The GET or the PUT fails: nothing is stored.
UpdateFails(i, answer) ==
  /\ updates[i].call.pc = "awaiting"
  /\ makeApiRequest(answer).kind = "throw"
  /\ updates' = [updates EXCEPT
                   ![i].call = ResumeHandler(@, WriteHandlers["update_card"],
                                             makeApiRequest(answer))]
  /\ UNCHANGED platform
  /\ UNCHANGED besidesUpdates

(***************************************************************************)
(* The entry point of the refactored server and its logger.  main() loads  *)
(* the configuration from the environment, constructs the server and       *)
(* connects it to the stdio transport; whatever is thrown on the way is    *)
(* logged and ends the process with exit code 1.  Once connected the       *)
(* server serves tool calls, and its components log through the logger.    *)
(***************************************************************************)
\* Logger.LEVELS
LEVELS == ("debug" :> 0) @@ ("info" :> 1) @@ ("warn" :> 2) @@ ("error" :> 3)

\* The properties every object inherits: LEVELS[name] is a function there.
Inherited == {"constructor", "toString"}

\* process.env.NAME || fallback
EnvOr(value, fallback) == IF Truthy(value) THEN value ELSE fallback

\* new Logger(): logLevel is read from the environment.
NewLogger(environment) ==
  [logLevel |-> EnvOr(environment.LOG_LEVEL, JStr(<<"info">>)).v[1]]

\* Logger.LEVELS[level] || Logger.LEVELS.info
LevelOrInfo(level) ==
  IF level \in DOMAIN LEVELS /\ LEVELS[level] # 0 THEN LEVELS[level] ELSE LEVELS.info

\* Logger.shouldLog(level): a comparison with a function is false.
shouldLog(lg, level) ==
  /\ lg.logLevel \notin Inherited
  /\ level \notin Inherited
  /\ LevelOrInfo(level) >= LevelOrInfo(lg.logLevel)

\* level.toUpperCase()
ToUpperCase ==
  ("debug" :> "DEBUG") @@ ("info" :> "INFO") @@ ("warn" :> "WARN") @@ ("error" :> "ERROR")

\* Logger.debug, info, warn, error: the lines of stderr after the call.
Emit(lg, lines, level, message) ==
  IF shouldLog(lg, level)
  THEN Append(lines, [level |-> ToUpperCase[level], message |-> message])
  ELSE lines

\* parseInt(text, 10): the number of the leading digits, NaN without any.
NaN == [t |-> "NaN"]

ParseInt(text) ==
  LET RECURSIVE value(_, _)
      value(i, acc) ==
        IF i > Len(text) \/ ~IsDigit(text[i]) THEN acc
        ELSE value(i + 1, 10 * acc + DigitVal(text[i]))
  IN IF text = <<>> \/ ~IsDigit(text[1]) THEN NaN ELSE JNum(value(1, 0))

\* new ConfigurationError(message, configKey)
ConfigurationError(message, configKey) ==
  [name |-> "ConfigurationError", code |-> "CONFIGURATION_ERROR", message |-> message,
   configKey |-> configKey]

S_defaultUrl == <<"https://data-metabase.swile.co">>

S_keyRequired ==
  <<"METABASE_API_KEY environment variable is required. ",
    "Please set it in your mcp.json configuration or environment.">>

\* loadConfig(): the configuration it returns or the error it throws.
loadConfig(environment) ==
  LET metabaseUrl == EnvOr(environment.METABASE_URL, JStr(S_defaultUrl))
      apiKey == environment.METABASE_API_KEY
      requestTimeout ==
        ParseInt(EnvOr(environment.REQUEST_TIMEOUT, JStr(<<"3", "0", "0", "0", "0">>)).v)
  IN IF ~Truthy(apiKey)
     THEN Throw(ConfigurationError(S_keyRequired, "METABASE_API_KEY"))
     ELSE Return([metabaseUrl |-> metabaseUrl, apiKey |-> apiKey,
                  requestTimeout |-> requestTimeout])

\* The process when main() is called: the module is loaded, nothing more.
Started ==
  [pc |-> "main", exitCode |-> -1, failure |-> NotCalled, config |-> NotCalled,
   constructed |-> FALSE, connected |-> FALSE, logCalls |-> 0]

\* A catch block of main that logs and goes on to serve.
MainCatch_recovers(proc, error) ==
  [proc EXCEPT !.pc = "running", !.failure = error, !.constructed = TRUE,
               !.connected = TRUE]

\* The catch block of main after logger.error: process.exit(1).
MainCatch(proc, error) == [proc EXCEPT !.pc = "exited", !.exitCode = 1, !.failure = error]

(***************************************************************************)
(* The environments and the log calls of the model.                        *)
(***************************************************************************)
MaxLogCalls == 2

\* LOG_LEVEL: unset, empty, the four levels, and names that are no level.
LogLevels ==
  <<Undefined, JStr(<<>>), JStr(<<"debug">>), JStr(<<"info">>), JStr(<<"warn">>),
    JStr(<<"error">>), JStr(<<"verbose">>), JStr(<<"constructor">>)>>

\* METABASE_API_KEY: unset, empty, set.
ApiKeys == <<Undefined, JStr(<<>>), JStr(<<"mb_key">>)>>

\* REQUEST_TIMEOUT: unset, a number, a number with a unit, no number.
RequestTimeouts ==
  <<Undefined, JStr(<<"5", "0", "0", "0">>), JStr(<<"5", "s">>), JStr(<<"s", "o", "o", "n">>)>>

\* METABASE_URL: unset, set.
MetabaseUrls == <<Undefined, JStr(S_metabaseUrl)>>

StartIdle ==
  /\ env = NoProperties
  /\ process = [pc |-> "none"]
  /\ stderr = <<>>

StartInit ==
  /\ \E u \in DOMAIN MetabaseUrls, k \in DOMAIN ApiKeys, t \in DOMAIN RequestTimeouts,
        l \in DOMAIN LogLevels :
       env = [METABASE_URL |-> MetabaseUrls[u], METABASE_API_KEY |-> ApiKeys[k],
              REQUEST_TIMEOUT |-> RequestTimeouts[t], LOG_LEVEL |-> LogLevels[l]]
  /\ process = Started
  /\ stderr = <<>>
  /\ server = "refactored"
  /\ served = 0
  /\ tool = NoTool

\* main() up to `await server.run()`, or through its catch block.
Main ==
  /\ process.pc = "main"
  /\ LET lg == NewLogger(env)
         config == loadConfig(env)
         starting == Emit(lg, stderr, "info", "Starting Metabase MCP Server")
     IN IF config.kind = "throw"
        THEN /\ process' = MainCatch(process, config.error)
             /\ stderr' = Emit(lg, starting, "error", "Failed to start server")
        ELSE /\ process' = [process EXCEPT !.pc = "connecting", !.config = config.value,
                                           !.constructed = TRUE]
             /\ stderr' = Emit(lg, starting, "info", "Configuration loaded")
  /\ UNCHANGED env
  /\ UNCHANGED besidesStart

\* `await this.server.connect(transport)` resolves: the server runs.
ConnectResolves ==
  /\ process.pc = "connecting"
  /\ process' = [process EXCEPT !.pc = "running", !.connected = TRUE]
  /\ stderr' = Emit(NewLogger(env), stderr, "info", "Metabase MCP server running on stdio")
  /\ UNCHANGED env
  /\ UNCHANGED besidesStart

\* `await this.server.connect(transport)` rejects: the catch block of main.
ConnectRejects ==
  /\ process.pc = "connecting"
  /\ process' = MainCatch(process, ErrorOf("Error", <<"connect failed">>))
  /\ stderr' = Emit(NewLogger(env), stderr, "error", "Failed to start server")
  /\ UNCHANGED env
  /\ UNCHANGED besidesStart

\* A component of the running server calls logger.debug, info, warn or error.
LogCall(level) ==
  /\ process.pc = "running"
  /\ process.logCalls < MaxLogCalls
  /\ process' = [process EXCEPT !.logCalls = @ + 1]
  /\ stderr' = Emit(NewLogger(env), stderr, level, "message")
  /\ UNCHANGED env
  /\ UNCHANGED besidesStart

\* The connected server receives a tool call.
ServeTool(name, args) ==
  /\ process.connected
  /\ served = 0
  /\ CallTool(name, args)

\* The HTTP call of the tool call served completes.
ServedRequestSettles(answer) ==
  /\ process.connected
  /\ RequestSettles(answer)

(***************************************************************************)
(* CardHandlers.executeQueryBuilderCard(cardId, parameters), called with   *)
(* what decode returned for a link: the card the link names and the        *)
(* parameters extracted from the link.                                     *)
(***************************************************************************)
Key_database == <<"d", "a", "t", "a", "b", "a", "s", "e">>

S_notQueryBuilder == <<"Card is not a query-builder card">>

\* The properties of a value that an object spread copies: those of an
\* object, none of undefined or null.
OwnProperties(x) == IF x.t = "obj" THEN x.v ELSE NoProperties

\* `{...baseCard.dataset_query, query: {...baseCard.dataset_query.query,
\* ...parameters}}`
ModifiedQuery(baseCard, parameters) ==
  LET datasetQuery == Get(baseCard, Key_dataset_query)
  IN JObj(Spread(OwnProperties(datasetQuery),
                 Key_query :> JObj(Spread(OwnProperties(Get(datasetQuery, Key_query)),
                                          OwnProperties(parameters)))))

\* `{database: baseCard.dataset_query.database, type: 'query', query:
\* modifiedQuery.query}`
DatasetBody(baseCard, parameters) ==
  JObj((Key_database :> Get(Get(baseCard, Key_dataset_query), Key_database))
       @@ (Key_type :> JStr(Key_query))
       @@ (Key_query :> Get(ModifiedQuery(baseCard, parameters), Key_query)))

\* JSON.stringify(body): the properties of the body that are not undefined.
Stringified(body) ==
  JObj([k \in {j \in DOMAIN body.v : body.v[j] # Undefined} |-> body.v[k]])

\* A request of the handler: the method, the endpoint and the body sent.
SentRequest(method, endpoint, body) ==
  [method |-> method, endpoint |-> endpoint, body |-> body]

ExecutionIdle == execution = [pc |-> "none", requests |-> <<>>, outcome |-> NotCalled]

\* The cards the platform returns for GET /api/card/42: a query-builder
\* card with a filter and a limit of its own, one with a source table only,
\* a native card, and a card whose dataset_query has no type.
BaseCards ==
  << JObj(Key_dataset_query :>
       JObj((Key_database :> JNum(1)) @@ (Key_type :> JStr(Key_query))
            @@ (Key_query :> JObj((Key_source_table :> JNum(2))
                                  @@ (Key_filter :> JArr(<<JStr(<<"o", "l", "d">>)>>))
                                  @@ (Key_limit :> JNum(5)))))),
     JObj(Key_dataset_query :>
       JObj((Key_database :> JNum(1)) @@ (Key_type :> JStr(Key_query))
            @@ (Key_query :> JObj(Key_source_table :> JNum(2))))),
     JObj(Key_dataset_query :>
       JObj((Key_database :> JNum(1)) @@ (Key_type :> JStr(Key_native))
            @@ (Key_native :> JObj(NoProperties)))),
     JObj(Key_dataset_query :> JObj(Key_database :> JNum(1))) >>

\* executeQueryBuilderCard is called with decoded.originalCardId and
\* decoded.parameters: it validates the id and asks for the base card.
ExecuteQueryBuilderCard ==
  /\ dpc = "done"
  /\ result.kind = "return"
  /\ execution.pc = "none"
  /\ LET cardId == result.value.originalCardId
         checked == validateId(Key_cardId, cardId)
     IN execution' =
          IF checked.kind = "throw"
          THEN [execution EXCEPT !.pc = "done", !.outcome = checked]
          ELSE [execution EXCEPT
                  !.pc = "card",
                  !.requests = <<SentRequest("GET", <<"/api/card/">> \o TemplateValue(cardId),
                                             NoBody)>>]
  /\ UNCHANGED besidesExecution

\* The base card arrives: a card of another kind is refused, the body of
\* a query-builder card is built and POSTed.
BaseCardReturns(baseCard) ==
  /\ execution.pc = "card"
  /\ execution' =
       IF Get(Get(baseCard, Key_dataset_query), Key_type) # JStr(Key_query)
       THEN [execution EXCEPT !.pc = "done",
                              !.outcome = Throw(ErrorOf("Error", S_notQueryBuilder))]
       ELSE [execution EXCEPT
               !.pc = "dataset",
               !.requests = @ \o <<SentRequest("POST", <<"/api/dataset">>,
                   Stringified(DatasetBody(baseCard, result.value.parameters)))>>]
  /\ UNCHANGED besidesExecution

\* The platform answers the POST.
DatasetReturns ==
  /\ execution.pc = "dataset"
  /\ execution' = [execution EXCEPT !.pc = "done", !.outcome = Return(Undefined)]
  /\ UNCHANGED besidesExecution

\* A request of the handler fails: the handler rejects with the error.
ExecutionRequestFails ==
  /\ execution.pc \in {"card", "dataset"}
  /\ execution' = [execution EXCEPT !.pc = "done", !.outcome = Throw(JsError("MetabaseError"))]
  /\ UNCHANGED besidesExecution

(***************************************************************************)
(* The specifications: the decoder, the pipeline and the tool-call         *)
(* handler, each on its own.                                               *)
(***************************************************************************)
vars == <<url, dpc, fragment, data, extracted, result, client, calls, sent,
          server, served, tool, platform, updates, env, process, stderr, execution>>

DecoderInit == DecodeCalled /\ PipelineIdle /\ ToolIdle /\ UpdatesIdle /\ StartIdle /\ ExecutionIdle

DecoderNext == Decode

DecoderSpec == DecoderInit /\ [][DecoderNext]_vars

Init == DecoderIdle /\ PipelineInit /\ ToolIdle /\ UpdatesIdle /\ StartIdle /\ ExecutionIdle

Next ==
  \/ \E r \in 1..Len(Requests) : MakeRequest(Requests[r].endpoint, Requests[r].options)
  \/ \E i \in 1..Len(calls) : TimerFires(i)
  \/ \E i \in 1..Len(calls) : \E k \in 1..Len(Responses) : FetchResolves(i, Responses[k])
  \/ \E i \in 1..Len(calls) : FetchAborted(i)
  \/ \E i \in 1..Len(calls) : FetchFails(i)
  \/ \E i \in 1..Len(calls) : TextResolves(i)
  \/ \E i \in 1..Len(calls) : JsonResolves(i)
  \/ \E i \in 1..Len(calls) : BodyRejects(i)

Spec == Init /\ [][Next]_vars

\* The pipeline where every timer that stays pending fires and every call
\* of fetch whose signal is aborted rejects.  Nothing is assumed of the
\* platform: it may answer late or never, and never finish a body.
TimerFairness ==
  \A i \in 1..MaxCalls :
    /\ WF_vars(i <= Len(calls) /\ TimerFires(i))
    /\ WF_vars(i <= Len(calls) /\ FetchAborted(i))

LiveSpec == Init /\ [][Next]_vars /\ TimerFairness

ToolSpecInit == DecoderIdle /\ PipelineIdle /\ ToolInit /\ UpdatesIdle /\ StartIdle /\ ExecutionIdle

ToolNext ==
  \/ \E name \in ToolNames, i \in DOMAIN ToolArguments : CallTool(name, ToolArguments[i])
  \/ \E answer \in ToolAnswers : RequestSettles(answer)

ToolSpec == ToolSpecInit /\ [][ToolNext]_vars

StartSpecInit == DecoderIdle /\ PipelineIdle /\ UpdatesIdle /\ StartInit /\ ExecutionIdle

StartNext ==
  \/ Main
  \/ ConnectResolves
  \/ ConnectRejects
  \/ \E level \in DOMAIN LEVELS : LogCall(level)
  \/ ServeTool("get_card", ToolArguments[3])
  \/ \E answer \in {Responses[1], NoResponse} : ServedRequestSettles(answer)

\* main() is called when the module is loaded and runs to its first await.
StartSpec == StartSpecInit /\ [][StartNext]_vars /\ WF_vars(Main)

\* A link made by the platform is decoded, and what decode returned is
\* passed to executeQueryBuilderCard.
RoundTripInit ==
  /\ url \in DocumentLinks
  /\ dpc = "call"
  /\ fragment = NotReached
  /\ data = NotParsed
  /\ extracted = NotCalled
  /\ result = NotCalled
  /\ PipelineIdle /\ ToolIdle /\ UpdatesIdle /\ StartIdle /\ ExecutionIdle

RoundTripNext ==
  \/ Decode
  \/ ExecuteQueryBuilderCard
  \/ \E i \in DOMAIN BaseCards : BaseCardReturns(BaseCards[i])
  \/ DatasetReturns
  \/ ExecutionRequestFails

RoundTripSpec == RoundTripInit /\ [][RoundTripNext]_vars

UpdateSpecInit == DecoderIdle /\ PipelineIdle /\ ToolIdle /\ UpdatesInit /\ StartIdle /\ ExecutionIdle

UpdateNext ==
  \/ \E args \in CardUpdates : UpdateCard(args)
  \/ \E i \in 1..Len(updates) : CurrentCardReturns(i)
  \/ \E i \in 1..Len(updates) : PutReturns(i)
  \/ \E i \in 1..Len(updates), answer \in {Responses[7], NoResponse} : UpdateFails(i, answer)

UpdateSpec == UpdateSpecInit /\ [][UpdateNext]_vars

(***************************************************************************)
(* Properties of the decoder.                                              *)
(***************************************************************************)
Done == dpc = "done"

HasHash(u) == \E i \in 1..Len(u) : u[i] = "#"

\* Everything after the first '#'.
AfterFirstHash(u) == SubSeq(u, IndexOfChar(u, "#", 1) + 1, Len(u))

\* A ValidationError about the argument: field "url", value the link.
IsUrlValidationError(e, u) ==
  /\ e.name = "ValidationError"
  /\ e.field = JStr(Str_url)
  /\ e.value = JStr(u)

\* The own property names of a value.
OwnKeys(x) == IF x.t = "obj" THEN DOMAIN x.v ELSE {}

\* The parsed document is an object whose dataset_query is an object with
\* type "query".
IsQueryKind(doc) ==
  /\ doc.t = "obj"
  /\ Key_dataset_query \in OwnKeys(doc)
  /\ Key_type \in OwnKeys(doc.v[Key_dataset_query])
  /\ doc.v[Key_dataset_query].v[Key_type] = JStr(Key_query)

\* C1 (as claimed): when the fragment decodes to an object whose
\* dataset_query has type "query" and a query body, decode returns a
\* parameters mapping whose keys are exactly the renamed keys present in the
\* body, whatever their values, each with the value of the body.
C1_ParametersMirrorPresentKeys ==
  (Done /\ data.ok /\ IsQueryKind(data.v)
   /\ Key_query \in OwnKeys(data.v.v[Key_dataset_query])
   /\ data.v.v[Key_dataset_query].v[Key_query].t = "obj")
  => LET body == data.v.v[Key_dataset_query].v[Key_query].v
         present == {i \in 1..Len(ParamRules) : ParamRules[i].src \in DOMAIN body}
     IN /\ result.kind = "return"
        /\ result.value.parameters.t = "obj"
        /\ DOMAIN result.value.parameters.v = {ParamRules[i].out : i \in present}
        /\ \A i \in present :
             result.value.parameters.v[ParamRules[i].out] = body[ParamRules[i].src]

\* C2 (as claimed): extractParametersFromQuery never throws, and decode of a
\* document for which it was called succeeds.
C2_ExtractionIsTotal ==
  (Done /\ extracted # NotCalled) => (extracted.kind = "return" /\ result.kind = "return")

\* Syntactically valid standard base64: groups of four characters of the
\* standard alphabet, the last group ending in at most two '='.
StdChar(c) == \E i \in 1..64 : B64Alphabet[i] = c

ValidStdBase64(f) ==
  LET n == Len(f)
  IN /\ n > 0
     /\ n % 4 = 0
     /\ \A i \in 1..(n - 2) : StdChar(f[i])
     /\ StdChar(f[n - 1]) \/ (f[n - 1] = "=" /\ f[n] = "=")
     /\ StdChar(f[n]) \/ f[n] = "="

\* C3 (as claimed): a link with a '#' followed by a fragment that is not
\* syntactically valid standard base64 makes decode raise ValidationError;
\* no payload is returned for it.  Stated for the links with one '#', where
\* the fragment is all that follows it.
C3_InvalidBase64Rejected ==
  (/\ Done
   /\ HasHash(url)
   /\ ~HasHash(AfterFirstHash(url))
   /\ Len(AfterFirstHash(url)) > 0
   /\ ~ValidStdBase64(AfterFirstHash(url)))
  => (result.kind = "throw" /\ IsUrlValidationError(result.error, url))

\* C4 (as claimed): the text that is base64-decoded is everything after the
\* first '#' of the link.
C4_FragmentIsRemainder ==
  (Done /\ Truthy(fragment)) => fragment.v = AfterFirstHash(url)

\* C5: a link without '#', or with nothing after its '#', makes decode raise
\* ValidationError with field "url" and the link as value.
C5_MissingFragmentRejected ==
  (Done /\ (~HasHash(url) \/ AfterFirstHash(url) = <<>>))
  => (result.kind = "throw" /\ IsUrlValidationError(result.error, url))

\* C5 witness: a link of several characters without '#', rejected.
C5_Witness ==
  Done /\ ~HasHash(url) /\ Len(url) > 1 /\ result.kind = "throw"

\* C6: decode either returns a payload whose seven fields all come from the
\* one parsed document, or raises ValidationError with field "url" and the
\* link as value; nothing else.
C6_PayloadOrValidationError ==
  Done
  => \/ /\ result.kind = "return"
        /\ data.ok
        /\ extracted.kind = "return"
        /\ DOMAIN result.value = {"originalCardId", "datasetQuery", "parameters", "display",
                                  "visualizationSettings", "name", "description"}
        /\ result.value.originalCardId = Get(data.v, Key_original_card_id)
        /\ result.value.datasetQuery = Get(data.v, Key_dataset_query)
        /\ result.value.parameters = extracted.value
        /\ result.value.display = Get(data.v, Key_display)
        /\ result.value.visualizationSettings = Get(data.v, Key_visualization_settings)
        /\ result.value.name = Get(data.v, Key_name)
        /\ result.value.description = Get(data.v, Key_description)
     \/ /\ result.kind = "throw"
        /\ IsUrlValidationError(result.error, url)

\* C6 witness: valid base64 of the JSON text null, which parses and is
\* rejected when its properties are read.
C6_Witness ==
  Done /\ data.ok /\ data.v = JNull /\ result.kind = "throw"

\* C7: when the document is an object whose dataset_query is absent or has
\* a type other than exactly "query", decode returns a payload whose
\* parameters are the empty mapping.
C7_OtherKindsGiveNoParameters ==
  (Done /\ data.ok /\ data.v.t = "obj" /\ ~IsQueryKind(data.v))
  => (result.kind = "return" /\ result.value.parameters = JObj(<<>>))

\* C7 witness: a native dataset_query that also holds a query body.
C7_Witness ==
  /\ Done /\ data.ok /\ data.v.t = "obj"
  /\ Key_dataset_query \in OwnKeys(data.v)
  /\ Get(data.v.v[Key_dataset_query], Key_type) = JStr(Key_native)
  /\ Get(data.v.v[Key_dataset_query], Key_query).t = "obj"
  /\ result.kind = "return"

(***************************************************************************)
(* Properties of the request pipeline.                                     *)
(***************************************************************************)
\* C9 (as claimed): in both pipelines an invocation whose timer expired
\* before the server responded fails with TimeoutError, whose timeoutMs is
\* the client's timeout and whose operation is the fetch, and with no other
\* kind of error.
C9_TimeoutRaisesTimeoutError ==
  \A i \in 1..Len(calls) :
    (calls[i].pc = "done" /\ calls[i].timer = "fired")
    => /\ calls[i].outcome.kind = "throw"
       /\ calls[i].outcome.error.name = "TimeoutError"
       /\ calls[i].outcome.error.timeoutMs = client.timeout
       /\ calls[i].outcome.error.operation = "fetch"

\* Invocation i got a response whose status is outside 200-299 and read
\* its body to the end.
FailedWithStatus(i) ==
  /\ calls[i].pc = "done"
  /\ calls[i].response # NoResponse
  /\ calls[i].response.status \notin 200..299
  /\ calls[i].body = "read"

\* C10: an invocation answered with a status s outside 200-299, whose body
\* could be read, fails with ApiError: statusCode s, endpoint the endpoint
\* argument and not the address requested, responseText the whole body; the
\* content type was not looked at and the body was not parsed as JSON.
C10_HttpFailureReported ==
  \A i \in 1..Len(calls) :
    FailedWithStatus(i)
    => /\ calls[i].outcome.kind = "throw"
       /\ calls[i].outcome.error.name = "ApiError"
       /\ calls[i].outcome.error.statusCode = calls[i].response.status
       /\ calls[i].outcome.error.endpoint = calls[i].endpoint
       /\ calls[i].outcome.error.endpoint # sent[i].url
       /\ calls[i].outcome.error.responseText = calls[i].response.body
       /\ \A j \in 1..Len(calls[i].reads) : calls[i].reads[j] \notin {"headers.get", "json"}

\* C10 witness: the 404 of the specification's scenario, reported with its
\* body, and a 500 whose body is JSON text, reported unparsed.
C10_Witness ==
  /\ Len(calls) = 2
  /\ FailedWithStatus(1) /\ calls[1].response.status = 404
  /\ calls[1].outcome.error.statusCode = 404
  /\ FailedWithStatus(2) /\ calls[2].response.status = 500
  /\ JSONParse(calls[2].response.body).ok
  /\ calls[2].outcome.error.responseText = calls[2].response.body

\* Invocation i got a response whose status is outside 200-299 and the read
\* of its body failed.
FailedWithUnreadableBody(i) ==
  /\ calls[i].pc = "done"
  /\ calls[i].response # NoResponse
  /\ calls[i].response.status \notin 200..299
  /\ calls[i].body = "failed"

\* C11 (as claimed): when the body of a response with a status outside
\* 200-299 cannot be read as text, the invocation still fails with an
\* ApiError that carries the status of the response and the endpoint.
C11_HttpFailureSurvivesUnreadableBody ==
  \A i \in 1..Len(calls) :
    FailedWithUnreadableBody(i)
    => /\ calls[i].outcome.kind = "throw"
       /\ calls[i].outcome.error.name = "ApiError"
       /\ calls[i].outcome.error.statusCode = calls[i].response.status
       /\ calls[i].outcome.error.endpoint = calls[i].endpoint

\* The media type of a content-type value: what precedes its parameters.
MediaType(value) == SubSeq(value, 1, IndexOfChar(value, ";", 1) - 1)

\* The content type is absent or its media type is not application/json.
NoJsonDeclared(contentType) ==
  contentType = JNull \/ MediaType(contentType.v) # S_application_json

\* Invocation i got a response with a status in 200-299 that does not
\* declare JSON.
AnsweredWithoutJson(i) ==
  /\ calls[i].pc = "done"
  /\ calls[i].response # NoResponse
  /\ calls[i].response.status \in 200..299
  /\ NoJsonDeclared(calls[i].response.contentType)

Documented(error) == error.name \in {"ApiError", "TimeoutError"}

\* C14: whatever an invocation throws is an ApiError or a TimeoutError.  An
\* error of these kinds raised inside the call is thrown as it is; any
\* other error (no connection, a body that does not parse) is thrown as
\* ApiError with statusCode 0, the endpoint argument and the message of
\* that error as responseText.
C14_FailuresAreNormalized ==
  \A i \in 1..Len(calls) :
    (calls[i].pc = "done" /\ calls[i].outcome.kind = "throw")
    => LET e == calls[i].outcome.error
           inner == calls[i].raised
       IN /\ Documented(e)
          /\ Documented(inner) => e = inner
          /\ ~Documented(inner)
             => /\ e.name = "ApiError"
                /\ e.statusCode = 0
                /\ e.endpoint = calls[i].endpoint
                /\ e.responseText = inner.message

\* C14 witness: a connection failure thrown as ApiError with statusCode 0,
\* and the ApiError of a 404 thrown as it was raised.
C14_Witness ==
  /\ Len(calls) = 2
  /\ calls[1].outcome.kind = "throw" /\ calls[1].raised.name = "TypeError"
  /\ calls[1].body = "unread"
  /\ calls[1].outcome.error.statusCode = 0
  /\ calls[1].outcome.error.responseText = <<"fetch failed">>
  /\ calls[2].outcome.kind = "throw" /\ calls[2].raised.name = "ApiError"
  /\ calls[2].raised.statusCode = 404
  /\ calls[2].outcome.error = calls[2].raised

\* The headers the caller of invocation i supplied.
CallerHeaders(i) ==
  IF "headers" \in DOMAIN calls[i].options THEN calls[i].options.headers ELSE NoProperties

\* C15 (as claimed): every HTTP call carries the caller's headers and every
\* default header the caller did not name: the Content-Type default and the
\* X-API-Key header with the client's API key.
C15_DefaultHeadersAlwaysSent ==
  \A n \in 1..Len(sent) :
    LET headers == sent[n].init.headers
        own == CallerHeaders(sent[n].call)
        defaults == DefaultHeaders(client.apiKey)
    IN /\ \A name \in DOMAIN own :
            name \in DOMAIN headers /\ headers[name] = own[name]
       /\ \A name \in (DOMAIN defaults) \ (DOMAIN own) :
            name \in DOMAIN headers /\ headers[name] = defaults[name]

\* C16: once the fetchWithTimeout of an invocation has returned a response
\* or thrown, its timer is not pending: it was cancelled, unless it had
\* fired and aborted the call.
C16_NoTimerOutlivesItsCall ==
  \A i \in 1..Len(calls) :
    calls[i].pc # "fetch"
    => /\ calls[i].timer # "pending"
       /\ calls[i].timer = "fired" => calls[i].aborted
       /\ ~calls[i].aborted => calls[i].timer = "cleared"

\* C16 witness: one invocation whose fetch failed and one that got its
\* response, both with their timer cancelled.
C16_Witness ==
  /\ Len(calls) = 2
  /\ calls[1].pc = "done" /\ calls[1].response = NoResponse /\ calls[1].timer = "cleared"
  /\ calls[2].pc = "json" /\ calls[2].timer = "cleared"

\* The HTTP calls made for invocation i.
SentFor(i) == {n \in 1..Len(sent) : sent[n].call = i}

\* C17: an invocation hands one request to fetch and never a second one,
\* whether it is still waiting, has returned, or has failed in any way.
C17_OneHttpCallPerInvocation ==
  /\ \A n \in 1..Len(sent) : sent[n].call \in 1..Len(calls)
  /\ \A i \in 1..Len(calls) : Cardinality(SentFor(i)) = 1

\* C17 witness: a POST that timed out and a POST that was answered 500,
\* each sent once.
C17_Witness ==
  /\ Len(calls) = 2
  /\ \A i \in 1..2 :
       /\ calls[i].pc = "done" /\ calls[i].outcome.kind = "throw"
       /\ "method" \in DOMAIN calls[i].options /\ calls[i].options.method = "POST"
  /\ calls[1].timer = "fired"
  /\ calls[2].response # NoResponse /\ calls[2].response.status = 500
  /\ Len(sent) = 2

\* What the outcome of invocation i may depend on: the client, its own
\* endpoint, its own response, its own abort signal and how the read of its
\* own body ended.
OwnInputs(i) ==
  <<calls[i].endpoint, calls[i].response, calls[i].aborted, calls[i].body>>

\* Every invocation has its own abort signal, and two completed invocations
\* with the same inputs have the same outcome.
Independent ==
  /\ \A n, m \in 1..Len(sent) : n # m => sent[n].init.signal # sent[m].init.signal
  /\ \A i, j \in 1..Len(calls) :
       (calls[i].pc = "done" /\ calls[j].pc = "done" /\ OwnInputs(i) = OwnInputs(j))
       => calls[i].outcome = calls[j].outcome

\* A step touches one invocation at most and leaves the client alone.
IsolatedStep ==
  /\ client' = client
  /\ \A i, j \in 1..Len(calls) :
       (i # j /\ calls'[i] # calls[i]) => calls'[j] = calls[j]

\* C18: invocations on one client are independent under every
\* interleaving: a step (the expiry of a timer, a response, a failure)
\* changes the state of one invocation only, each invocation has its own
\* abort signal, the outcome of an invocation is determined by its own
\* response, timer and body read, and the client's base address, API key
\* and timeout never change.
C18_InvocationsAreIndependent == [][IsolatedStep /\ Independent']_vars

\* C18 witness: of two invocations in flight together, the first was
\* aborted by its timer and the second returned a value.
C18_Witness ==
  /\ Len(calls) = 2
  /\ calls[1].pc = "done" /\ calls[1].timer = "fired" /\ calls[1].aborted
  /\ calls[2].pc = "done" /\ ~calls[2].aborted /\ calls[2].outcome.kind = "return"

(***************************************************************************)
(* Properties of the tool-call handler, checked under ToolSpec.            *)
(***************************************************************************)
WriteToolNames ==
  {"create_card", "update_card", "create_collection", "update_collection",
   "create_dashboard", "update_dashboard", "update_dashboard_cards",
   "create_database", "update_database"}

\* The tool call is answered after an error was thrown in its handler or
\* in the HTTP call of its handler.
AnsweredAfterFailure == tool.pc = "done" /\ tool.failure # NotCalled

\* C19 as the claim words it: the tool-call handler always returns a
\* result, and whenever the handler or the pipeline failed the result has
\* isError true and the text "Error executing <name>: <message>".
C19_ErrorResultFormat ==
  tool.pc = "done" =>
    /\ tool.completion.kind = "return"
    /\ tool.failure # NotCalled =>
         tool.completion.value
           = ErrorResult(<<"Error executing ", tool.name, ": ">> \o tool.failure.message)

\* The tools of the legacy server whose handler has its own catch block.
OwnCatchTools == WriteToolNames \cup {"get_card_with_parameters"}

\* What such a handler puts before the message.
OwnPrefixes ==
  {"Error extracting card with parameters: ", "Error creating card: ", "Error updating card: ", "Error creating collection: ",
   "Error updating collection: ", "Error creating dashboard: ",
   "Error updating dashboard: ", "Error updating dashboard cards: ",
   "Error creating database: ", "Error updating database: "}

\* C19: the tool-call handler never lets an exception escape: for every
\* tool name, registered or not, and every arguments value it returns a
\* result.  A failure that reaches the catch block of the tool-call
\* handler gives isError true and the text "Error executing <name>:
\* <message>"; a failure inside a write handler or inside
\* get_card_with_parameters of the legacy server is caught by that handler
\* and gives isError true and the handler's own text before the message
\* ("Error creating card: <message>"); a failure
\* of list_metrics or get_activity whose message holds 404 gives a result
\* without isError.
C19_FailuresBecomeResults ==
  tool.pc = "done" =>
    /\ tool.completion.kind = "return"
    /\ (tool.failure # NotCalled /\ tool.caughtBy = "dispatcher") =>
         tool.completion.value
           = ErrorResult(<<"Error executing ", tool.name, ": ">> \o tool.failure.message)
    /\ (tool.failure # NotCalled /\ tool.caughtBy # "dispatcher") =>
         LET r == tool.completion.value
             text == r.content[1].text
             message == tool.failure.message
         IN IF tool.name \in {"list_metrics", "get_activity"}
            THEN Includes(message, <<"4", "0", "4">>) /\ "isError" \notin DOMAIN r
            ELSE /\ server = "legacy" /\ tool.name \in OwnCatchTools
                 /\ "isError" \in DOMAIN r /\ r.isError
                 /\ text[1] \in OwnPrefixes
                 /\ text = <<text[1]>> \o message
    /\ (tool.failure # NotCalled /\ tool.name \in WriteToolNames /\ tool.requests # <<>>) =>
         tool.caughtBy = "handler"
    /\ (/\ tool.failure # NotCalled
        /\ tool.name \notin {"list_metrics", "get_activity"}
        /\ ~(server = "legacy" /\ tool.name \in OwnCatchTools)) =>
         tool.caughtBy = "dispatcher"

\* C19 witness: the POST of create_card failed, and the caller got the
\* error result of createCard's own catch block.
C19_Witness ==
  /\ AnsweredAfterFailure
  /\ tool.name = "create_card"
  /\ Len(tool.requests) = 1 /\ tool.requests[1].method = "POST"
  /\ tool.completion.kind = "return"
  /\ tool.completion.value.isError
  /\ tool.completion.value.content[1].text[1] = "Error creating card: "

\* C20: a write tool call executes at once.  The legacy server, which is
\* the one that has the write tools, keeps no confirmation state, no
\* approval queue and no dry-run mode: whatever number of tool calls it
\* has answered before, a write tool called with arguments sends an HTTP
\* call in that very invocation, the POST or PUT itself or, for an update,
\* the GET of the resource that the PUT follows, and no write tool call
\* is answered without an error before its POST or PUT was sent.
C20_WritesExecuteImmediately ==
  (server = "legacy" /\ tool.pc # "none" /\ tool.name \in WriteToolNames
     /\ CanRead(tool.args)) =>
    LET n == Len(tool.requests)
    IN /\ n >= 1
       /\ \/ tool.requests[1].method \in {"POST", "PUT"} /\ n = 1
          \/ /\ tool.requests[1].method = "GET"
             /\ n <= 2
             /\ n = 2 => /\ tool.requests[2].method = "PUT"
                         /\ tool.requests[2].endpoint = tool.requests[1].endpoint
       /\ (tool.pc = "done" /\ "isError" \notin DOMAIN tool.completion.value) =>
            tool.requests[n].method \in {"POST", "PUT"}

\* C20 witness: the first tool call a server ever gets is create_card, and
\* its POST is on its way.
C20_Witness ==
  /\ server = "legacy"
  /\ served = 0
  /\ tool.pc = "awaiting"
  /\ tool.name = "create_card"
  /\ tool.requests = <<HttpCall("POST", <<"/api/card">>)>>

(***************************************************************************)
(* Properties of update_card, checked under UpdateSpec.                    *)
(***************************************************************************)
\* The fields of the card that the caller of update i did not supply.
NotSupplied(i) == {k \in DOMAIN platform : Get(updates[i].call.args, k) = Undefined}

\* Update i completes successfully in this step.
Succeeds(i) ==
  /\ updates[i].call.pc = "awaiting"
  /\ updates'[i].call.pc = "done"
  /\ updates'[i].call.failure = NotCalled

\* C21: a partial update loses no data.  When update_card completes
\* successfully, every field of the card that its caller did not supply
\* holds the value that was stored on the platform last, whatever other
\* update_card calls stored between the GET and the PUT of this one.
C21_PartialUpdateKeepsStoredFields ==
  [][\A i \in 1..Len(updates) :
       Succeeds(i) => \A k \in NotSupplied(i) : platform'[k] = platform[k]]_vars


\* The tools whose endpoint the platform has only in some versions.
VersionGatedTools == {"list_metrics", "get_activity"}

\* C22: for the version-gated endpoints behind list_metrics and
\* get_activity, a response with status 404 is not reported as an error:
\* the step of the handler that receives it returns a result, and the
\* result has no isError.
C22_NotFoundIsNoError ==
  [][\A answer \in ToolAnswers :
       (/\ tool.pc = "awaiting"
        /\ tool.name \in VersionGatedTools
        /\ "status" \in DOMAIN answer
        /\ answer.status = 404
        /\ RequestSettles(answer))
       => /\ tool'.completion.kind = "return"
          /\ "isError" \notin DOMAIN tool'.completion.value]_vars

\* The tools of the refactored server whose handler validates its argument.
ValidatingTools ==
  {"get_card", "get_dashboard", "get_database", "get_table_metadata", "get_field",
   "get_activity", "execute_native_query", "get_card_with_parameters"}

\* An integer >= 1.
PositiveInteger(x) == x.t = "num" /\ x.v >= 1

\* The same JavaScript value.
SameValue(a, b) == a.t = b.t /\ a = b

\* The tool call has an argument that its handler's validator must refuse.
InvalidArgument ==
  LET h == ReadHandlers[tool.name]
      arg == Get(tool.args, h.idKey)
      limit == DefaultTo(arg, JNum(20))
  IN \/ h.kind \in {"get", "query"} /\ ~PositiveInteger(arg)
     \/ h.kind = "list" /\ ~(limit.t = "num" /\ limit.v \in 1..100)
     \/ h.kind = "query" /\ ~NonEmptyString(Get(tool.args, Key_query))
     \/ h.kind = "link" /\ ~NonEmptyString(arg)

\* The error names a field of the tool call whose value a validator must
\* refuse, and carries that value.
NamesOffence(error) ==
  LET h == ReadHandlers[tool.name]
      arg == Get(tool.args, h.idKey)
      limit == DefaultTo(arg, JNum(20))
      query == Get(tool.args, Key_query)
  IN \/ /\ h.kind \in {"get", "query"} /\ ~PositiveInteger(arg)
        /\ error.field = IdValidators[h.idKey].field /\ SameValue(error.value, arg)
     \/ /\ h.kind = "list" /\ ~(limit.t = "num" /\ limit.v \in 1..100)
        /\ error.field = "limit" /\ SameValue(error.value, limit)
     \/ /\ h.kind = "query" /\ ~NonEmptyString(query)
        /\ error.field = "query" /\ SameValue(error.value, query)
     \/ /\ h.kind = "link" /\ ~NonEmptyString(arg)
        /\ error.field = "url" /\ SameValue(error.value, arg)

\* C23: in every handler that validates its argument, validation precedes
\* the network.  An ID that is not an integer >= 1, a limit that is not an
\* integer in 1..100, an empty or non-string query or URL makes the call
\* fail with a ValidationError that names the field and carries the
\* offending value, and the invocation issues no HTTP request; a positive
\* integer ID is accepted: the handler requests the resource of that ID.
C23_ValidationPrecedesNetwork ==
  (/\ server = "refactored" /\ tool.pc # "none"
   /\ tool.name \in ValidatingTools /\ CanRead(tool.args)) =>
    LET h == ReadHandlers[tool.name]
        arg == Get(tool.args, h.idKey)
    IN IF InvalidArgument
       THEN /\ tool.pc = "done"
            /\ tool.requests = <<>>
            /\ tool.failure # NotCalled
            /\ tool.failure.name = "ValidationError"
            /\ NamesOffence(tool.failure)
            /\ "isError" \in DOMAIN tool.completion.value
       ELSE h.kind = "get" =>
              /\ tool.requests # <<>>
              /\ tool.requests[1].method = "GET"
              /\ SubSeq(tool.requests[1].endpoint, 1, 3)
                   = <<h.endpoint, "/">> \o NumberToString(arg.v)

\* C23 witness: get_dashboard of the refactored server was called with
\* dashboardId -1 and failed with the ValidationError of dashboardId before
\* any request.
C23_Witness ==
  /\ server = "refactored" /\ tool.pc = "done"
  /\ tool.name = "get_dashboard" /\ CanRead(tool.args)
  /\ SameValue(Get(tool.args, Key_dashboardId), JNum(0 - 1))
  /\ tool.failure # NotCalled /\ tool.failure.name = "ValidationError"
  /\ tool.failure.field = "dashboardId"
  /\ tool.requests = <<>>

\* The link of the tool call is one that the server's validation and
\* decoder accept; Decoded is what the decoder returns for it.
Decoded ==
  LET link == Get(tool.args, Str_url)
  IN IF server = "legacy" THEN decodeDashboardUrl(link)
     ELSE IF ~NonEmptyString(link) THEN validateUrl(link)
     ELSE decode(link.v)

C26_EveryRequestTerminates ==
  \A i \in 1..MaxCalls :
    (i <= Len(calls)) ~> (i <= Len(calls) /\ calls[i].pc = "done")

\* C27: get_card_with_parameters never issues a request to /api/card/<id>
\* unless the decoded originalCardId is a positive integer; a link whose
\* payload has no original_card_id, or one that is no positive integer,
\* makes the call fail with a ValidationError before any request.
C27_LookupOnlyWithCardId ==
  (/\ tool.pc # "none" /\ tool.name = "get_card_with_parameters" /\ CanRead(tool.args)
   /\ Decoded.kind = "return" /\ ~PositiveInteger(Decoded.value.originalCardId)) =>
    /\ tool.requests = <<>>
    /\ tool.pc = "done"
    /\ tool.failure # NotCalled
    /\ tool.failure.name = "ValidationError"

\* The answer is a response with status 404.
IsNotFound(answer) == "status" \in DOMAIN answer /\ answer.status = 404

\* C28: the fallback of list_metrics and get_activity is taken only for an
\* HTTP 404: when the request of the handler fails in any other way
\* (another status code, a timeout for any configured timeout, a response
\* that is no JSON, a transport error) the tool call returns an error
\* result, never the text of the fallback.
C28_FallbackOnlyForNotFound ==
  [][\A answer \in ToolAnswers :
       (/\ tool.pc = "awaiting"
        /\ tool.name \in VersionGatedTools
        /\ ~IsNotFound(answer)
        /\ RequestSettles(answer)
        /\ tool'.failure # NotCalled)
       => /\ tool'.completion.kind = "return"
          /\ "isError" \in DOMAIN tool'.completion.value]_vars

(***************************************************************************)
(* Properties of the entry point and of the logger, checked under          *)
(* StartSpec.                                                              *)
(***************************************************************************)
\* The required API key is missing: unset or empty.
MissingKey == ~Truthy(env.METABASE_API_KEY)

\* The process has ended with a non-zero exit code.
ExitedNonZero == process.pc = "exited" /\ process.exitCode # 0

\* C24: when the required API key is missing at startup the server never
\* reaches the running state: no server is constructed or connected to a
\* transport, no tool call is served and so no request is made, the error
\* that ends main is the ConfigurationError of loadConfig with the key name
\* METABASE_API_KEY, and the process terminates with a non-zero exit code.
C24_MissingKeyIsFatal ==
  /\ [](MissingKey =>
          /\ process.pc \in {"main", "exited"}
          /\ ~process.constructed
          /\ ~process.connected
          /\ tool = NoTool
          /\ process.pc = "exited" =>
               /\ process.exitCode = 1
               /\ process.failure.name = "ConfigurationError"
               /\ process.failure.configKey = "METABASE_API_KEY")
  /\ (MissingKey ~> ExitedNonZero)

\* C24 witness: the process of an environment without the key has ended
\* with exit code 1.
C24_Witness == MissingKey /\ ExitedNonZero /\ process.exitCode = 1

\* The severity of the configured level: that of LOG_LEVEL when it names a
\* level, that of info when it is unset or names none.
ConfiguredSeverity ==
  LET level == NewLogger(env).logLevel
  IN IF level \in DOMAIN LEVELS THEN LEVELS[level] ELSE LEVELS.info

\* C30: a call of the logger emits its message exactly when the level of
\* the message is at least as severe as the configured level, in the order
\* debug < info < warn < error; an unset or unrecognised LOG_LEVEL counts
\* as info.
C30_EmitsFromConfiguredLevel ==
  [][\A level \in DOMAIN LEVELS :
       LogCall(level) => (stderr' # stderr <=> LEVELS[level] >= ConfiguredSeverity)]_vars

(***************************************************************************)
(* Properties of the round trip from a link to the execution of its card,  *)
(* checked under RoundTripSpec.                                            *)
(***************************************************************************)
\* The keys of a structured query in the platform's query form.
QueryFormKeys ==
  {SourceKeys[i] : i \in DOMAIN SourceKeys}
  \cup {<<"f", "i", "e", "l", "d", "s">>, <<"e", "x", "p", "r", "e", "s", "s", "i", "o", "n", "s">>,
        <<"s", "o", "u", "r", "c", "e", "-", "q", "u", "e", "r", "y">>, <<"p", "a", "g", "e">>}

\* The query of the link that was decoded.
LinkQuery == Get(Get(data.v, Key_dataset_query), Key_query)

\* The body of the POST to /api/dataset has been sent for a link of the
\* query-builder kind.
Posted ==
  /\ Len(execution.requests) = 2
  /\ ~NotQueryBuilder(Get(data.v, Key_dataset_query))
  /\ LinkQuery.t = "obj"

\* C29: when the parameters decode extracted from a link are passed to
\* executeQueryBuilderCard for the link's card, the query POSTed to
\* /api/dataset has the link's filter, aggregation, breakout, source-table,
\* order-by and limit under those source key names, in the place of the
\* base card's values, and has no key outside the platform's query form.
C29_RoundTripKeepsQueryForm ==
  Posted =>
    LET query == Get(execution.requests[2].body, Key_query)
    IN /\ \A i \in DOMAIN ParamRules :
            Truthy(Get(LinkQuery, ParamRules[i].src))
              => SameValue(Get(query, ParamRules[i].src), Get(LinkQuery, ParamRules[i].src))
       /\ DOMAIN query.v \subseteq QueryFormKeys
=============================================================================
